---- MODULE Spec2Model ----
(***************************************************************************)
(* Model of the grading service: the input validator, the expression      *)
(* evaluation pipeline, the single-item grader and the batch grader of     *)
(* routers/marking.py, the Attempt store they write to, and the older      *)
(* monolithic endpoints of main.py.                                        *)
(*                                                                         *)
(* Text (answers, expected strings) is a sequence of one-character         *)
(* strings.  Exact values are rationals <<p, q>> in lowest terms, q > 0.   *)
(* A double is [w, n]: w whole units and n billionths (0 <= n < 10^9), so  *)
(* that 1e-9 is one unit of n.                                             *)
(***************************************************************************)
EXTENDS Integers, Sequences, FiniteSets, TLC

\* ------------------------------------------------------------------ bounds
\* Longest text enumerated exhaustively over Sigma.
MaxShort == 2
\* Longest batch (number of items of one mark_batch request).
MaxItems == 2
\* Most Attempt rows the store is let to hold.
MaxAttempts == 2

\* ------------------------------------------------------------------ text
NONE == <<"<None>">>

Digits == {"0", "1", "2", "3", "4", "5", "6", "7", "8", "9"}
Whitespace == {" ", "\t", "\n", "\r", "\f"}
Operators == {"+", "-", "*", "/", "^", "(", ")", "."}

Rep(c, n) == [i \in 1..n |-> c]

RECURSIVE lstrip(_)
lstrip(s) == IF s # <<>> /\ Head(s) \in Whitespace THEN lstrip(Tail(s)) ELSE s

RECURSIVE rstrip(_)
rstrip(s) ==
  IF s # <<>> /\ s[Len(s)] \in Whitespace THEN rstrip(SubSeq(s, 1, Len(s) - 1)) ELSE s

strip(s) == rstrip(lstrip(s))

Contains(s, sub) ==
  \E i \in 1..(Len(s) - Len(sub) + 1) : SubSeq(s, i, i + Len(sub) - 1) = sub

IndexOf(s, c) ==
  IF \E i \in 1..Len(s) : s[i] = c
  THEN CHOOSE i \in 1..Len(s) : s[i] = c /\ \A j \in 1..(i - 1) : s[j] # c
  ELSE 0

\* ------------------------------------------------------------------ validation
LEN_LIMIT == 100
_INVALID_CHARS_MSG ==
  "Only numeric expressions using digits, spaces, + - * / ^ . and parentheses are allowed."
_NON_FINITE_MSG == "Expression is not finite (e.g., division by zero)."
_TOO_COMPLEX_MSG == "Expression is too complex."
MSG_REQUIRED == "Answer required."
MSG_TOO_LONG == "Answer too long (> 100)."
NoMsg == "<None>"

\* re.compile(r"^[0-9+\-*/^().\s]{1,100}$").fullmatch(s)
_ALLOWED_RE(s) ==
  /\ Len(s) >= 1
  /\ Len(s) <= 100
  /\ \A i \in 1..Len(s) : s[i] \in Digits \cup Operators \cup Whitespace

\* The validator measuring the trimmed text, as main.py does.
_validate_trimmed_length(s) ==
  IF strip(s) = <<>> THEN MSG_REQUIRED
  ELSE IF Len(strip(s)) > LEN_LIMIT THEN MSG_TOO_LONG
  ELSE IF ~_ALLOWED_RE(strip(s)) THEN _INVALID_CHARS_MSG
  ELSE NoMsg

\* The validator answering every failure with the one message of the pattern.
_validate_one_message(s) ==
  IF ~_ALLOWED_RE(s) \/ strip(s) = <<>> THEN _INVALID_CHARS_MSG ELSE NoMsg

_validate_answer_text(s) ==
  IF strip(s) = <<>> THEN MSG_REQUIRED
  ELSE IF Len(s) > LEN_LIMIT THEN MSG_TOO_LONG
  ELSE IF ~_ALLOWED_RE(s) THEN _INVALID_CHARS_MSG
  ELSE NoMsg

_validate_expr(s) == _validate_answer_text(s)

\* ------------------------------------------------------------------ numbers
Abs(x) == IF x < 0 THEN -x ELSE x

RECURSIVE gcd(_, _)
gcd(a, b) == IF b = 0 THEN Abs(a) ELSE gcd(Abs(b), Abs(a) % Abs(b))

\* sympy.Rational(a, b) for b # 0: lowest terms, q > 0, sign carried by p.
Rational(a, b) ==
  LET g == gcd(Abs(a), Abs(b))
      sg == IF b < 0 THEN -1 ELSE 1
  IN  <<sg * (a \div g), sg * (b \div g)>>

Giga == 10 ^ 9

DigitVal(c) ==
  CASE c = "0" -> 0 [] c = "1" -> 1 [] c = "2" -> 2 [] c = "3" -> 3 [] c = "4" -> 4
    [] c = "5" -> 5 [] c = "6" -> 6 [] c = "7" -> 7 [] c = "8" -> 8 [] c = "9" -> 9

DigitChar(d) == <<"0", "1", "2", "3", "4", "5", "6", "7", "8", "9">>[d + 1]

IsDigits(s) == s # <<>> /\ \A i \in 1..Len(s) : s[i] \in Digits

\* The most decimal digits a modelled integer literal may carry and still be
\* held as a number; longer literals are the value Big.
MaxDigits == 8

RECURSIVE StrToNat(_)
StrToNat(s) ==
  IF s = <<>> THEN 0 ELSE 10 * StrToNat(SubSeq(s, 1, Len(s) - 1)) + DigitVal(s[Len(s)])

RECURSIVE NatToStr(_)
NatToStr(n) == IF n < 10 THEN <<DigitChar(n)>> ELSE NatToStr(n \div 10) \o <<DigitChar(n % 10)>>

\* str(n) of a Python int / the {val.p} of an f-string.
IntToStr(n) == IF n < 0 THEN <<"-">> \o NatToStr(-n) ELSE NatToStr(n)

\* A signed decimal integer as the regular expression [+-]?\d+ reads it.
IsSignedInt(s) ==
  /\ s # <<>>
  /\ IF Head(s) \in {"+", "-"} THEN IsDigits(Tail(s)) ELSE IsDigits(s)

SignedDigits(s) == IF Head(s) \in {"+", "-"} THEN Tail(s) ELSE s
SignedFits(s) == Len(SignedDigits(s)) <= MaxDigits
SignedVal(s) ==
  IF Head(s) = "-" THEN -StrToNat(Tail(s))
  ELSE IF Head(s) = "+" THEN StrToNat(Tail(s)) ELSE StrToNat(s)

\* int(text): surrounding whitespace is ignored, one optional sign, digits.
PyIntOk(s) == IsSignedInt(strip(s))
PyInt(s) == SignedVal(strip(s))

\* ------------------------------------------------------------------ doubles
\* A double [neg, w, n] stands for (-1)^neg * (w + n / 10^9): the values the
\* model compares are decimals to nine places, in units of the tolerance
\* abs_tol = 1e-9.  The rounding of a decimal to the nearest binary double is
\* below this resolution and is left out.
Double(neg, w, n) == [neg |-> neg, w |-> w, n |-> n]

RECURSIVE Pow10(_)
Pow10(k) == IF k = 0 THEN 1 ELSE 10 * Pow10(k - 1)

RECURSIVE FracDigits(_, _, _)
\* k decimal digits of r / q (0 <= r < q), as a number below 10^k.
FracDigits(r, q, k) ==
  IF k = 0 THEN 0
  ELSE LET d == (r * 10) \div q
           rest == FracDigits((r * 10) % q, q, k - 1)
       IN  d * Pow10(k - 1) + rest

\* float(Rational(p, q)), to the resolution of the model.
ToDouble(r) ==
  LET p == r[1]
      q == r[2]
  IN  Double(p < 0, Abs(p) \div q, FracDigits(Abs(p) % q, q, 9))

\* |a - b| in billionths, capped at 2 * 10^9.
AbsDiffNano(a, b) ==
  IF a.neg = b.neg
  THEN IF Abs(a.w - b.w) >= 2 THEN 2 * Giga
       ELSE Abs((a.w - b.w) * Giga + (a.n - b.n))
  ELSE IF a.w + b.w >= 1 THEN 2 * Giga
       ELSE a.n + b.n

\* math.isclose(a, b, rel_tol=0, abs_tol=1e-9)
isclose(a, b) == AbsDiffNano(a, b) <= 1

\* ------------------------------------------------------------------ sympy
\* What parse_expr(text, transformations=TRANSFORMS, evaluate=True) hands back:
\*   "num"    a finite number: rat its exact value when hasRat, dbl its double
\*   "big"    a finite integer of more than MaxDigits digits
\*   "huge"   a finite integer beyond the range of a double (2^2001)
\*   "zoo"    complex infinity (a / 0),  "nan"  (0 / 0)
\*   "complex" a finite number that is not real
\*   "object" a Python object that is no sympy expression (the tuple of "()")
\*   "raise_ValueError", "raise_Exception"   the parser raised
SymNum(r) == [tag |-> "num", rat |-> r, dbl |-> ToDouble(r), hasRat |-> TRUE]
SymFloat(d) == [tag |-> "num", rat |-> <<0, 1>>, dbl |-> d, hasRat |-> FALSE]
SymTag(t) == [tag |-> t, rat |-> <<0, 1>>, dbl |-> Double(FALSE, 0, 0), hasRat |-> FALSE]

BigW == Giga
BigDouble == Double(FALSE, BigW, 0)
\* float("inf"), what float() gives for a number beyond the range of a double.
InfDouble == [neg |-> FALSE, w |-> -2, n |-> 0]

\* text = a "/" b with a, b signed integers and optional blanks around "/".
SlashAt(t) == IndexOf(t, "/")
NumPart(t) == strip(SubSeq(t, 1, SlashAt(t) - 1))
DenPart(t) == strip(SubSeq(t, SlashAt(t) + 1, Len(t)))
IsFracLit(t) ==
  /\ SlashAt(t) > 0
  /\ IsSignedInt(NumPart(t))
  /\ IsSignedInt(DenPart(t))

\* text = [+-]? digits "." digits
DotAt(t) == IndexOf(t, ".")
Unsigned(t) == IF t # <<>> /\ Head(t) \in {"+", "-"} THEN Tail(t) ELSE t
WholePart(t) == SubSeq(Unsigned(t), 1, DotAt(Unsigned(t)) - 1)
FracPart(t) == SubSeq(Unsigned(t), DotAt(Unsigned(t)) + 1, Len(Unsigned(t)))
IsDecimal(t) ==
  /\ DotAt(Unsigned(t)) > 0
  /\ IsDigits(WholePart(t))
  /\ IsDigits(FracPart(t))

DecimalValue(t) ==
  LET neg == Head(t) = "-"
      W == StrToNat(WholePart(t))
      k == Len(FracPart(t))
      F == StrToNat(FracPart(t))
      d == Double(neg, W, F * Pow10(9 - k))
  IN  IF Len(WholePart(t)) + k <= MaxDigits
      THEN [tag |-> "num", rat |-> Rational((IF neg THEN -1 ELSE 1) * (W * Pow10(k) + F), Pow10(k)),
            dbl |-> d, hasRat |-> TRUE]
      ELSE SymFloat(d)

\* The most operators and the most digits of an integer literal that
\* _assert_expr_complexity lets through.
_MAX_OPS == 200
_MAX_INT_DIGITS == 200

\* 1+1+...+1 with k ones, k - 1 operators.
SumOfOnes(k) == [i \in 1..(2 * k - 1) |-> IF i % 2 = 1 THEN "1" ELSE "+"]

\* Compound expressions whose value is written out.
KnownExprs ==
  { <<(<<"3", "^", "2", " ", "+", " ", "4", "^", "2">>), <<25, 1>>>>,
    <<(<<"3", "^", "2", "+", "4", "^", "2">>), <<25, 1>>>>,
    <<(<<"1", "/", "2", " ", "+", " ", "1", "/", "3">>), <<5, 6>>>>,
    <<(<<"7", " ", "-", " ", "3", "*", "2">>), <<1, 1>>>>,
    <<(<<"(", "6", "/", "8", ")">>), <<3, 4>>>>,
    <<(<<"3", "*", "2", "/", "8">>), <<3, 4>>>>,
    <<(<<"2", "^", "1", "0">>), <<1024, 1>>>>,
    <<(<<"1", "^", "2", "0", "0", "0">>), <<1, 1>>>>,
    <<(<<"1", "^", "2", "0", "0", "1">>), <<1, 1>>>>,
    <<SumOfOnes(_MAX_OPS + 1), <<_MAX_OPS + 1, 1>>>>,
    <<SumOfOnes(_MAX_OPS + 2), <<_MAX_OPS + 2, 1>>>> }

\* Powers that parse_expr(evaluate=True) computes to an integer of some 600
\* digits, beyond the range of a double.
HugeExprs ==
  { <<"2", "^", "2", "0", "0", "0">>, <<"2", "^", "2", "0", "0", "1">>,
    <<"1", "0", "^", "4", "0", "0">> }

\* Literal fractions with parts beyond MaxDigits, each with a rational it is
\* not equal to but shares its double with:
\* 30000000000000000000001/40000000000000000000000 is 3/4 + 2.5e-23, in
\* lowest terms (its denominator is 2^24 * 5^22, its numerator ends in 1).
CloseFractions ==
  { << <<"3">> \o Rep("0", 21) \o <<"1", "/", "4">> \o Rep("0", 22), <<3, 4>> >> }
IsCloseFraction(t) == \E e \in CloseFractions : e[1] = t
\* float() of the value of the close fraction t.
CloseDouble(t) == ToDouble((CHOOSE e \in CloseFractions : e[1] = t)[2])

IsKnownExpr(t) == \E e \in KnownExprs : e[1] = t
KnownValue(t) == (CHOOSE e \in KnownExprs : e[1] = t)[2]

SampleRats == { <<25, 1>>, <<3, 4>>, <<0, 1>> }
AnyResult ==
  {SymNum(r) : r \in SampleRats}
    \cup {SymTag(t) : t \in {"big", "zoo", "nan", "complex", "object",
                               "raise_ValueError", "raise_Exception"}}

\* The results parse_expr can give for a text.  Integer, decimal and a/b
\* literals and the known expressions have one; for any other text the model
\* does not decide what the parser does, and every kind of result is possible.
parse_expr(s) ==
  LET t == strip(s)
  IN  IF t = <<>> THEN {SymTag("raise_Exception")}
      ELSE IF IsSignedInt(t)
      THEN IF SignedFits(t) THEN {SymNum(<<SignedVal(t), 1>>)} ELSE {SymTag("big")}
      ELSE IF IsDecimal(t) /\ Len(WholePart(t)) <= MaxDigits /\ Len(FracPart(t)) <= 9
      THEN {DecimalValue(t)}
      ELSE IF IsFracLit(t) /\ SignedFits(NumPart(t)) /\ SignedFits(DenPart(t))
      THEN LET a == SignedVal(NumPart(t))
               b == SignedVal(DenPart(t))
           IN  IF b # 0 THEN {SymNum(Rational(a, b))}
               ELSE IF a # 0 THEN {SymTag("zoo")} ELSE {SymTag("nan")}
      ELSE IF IsKnownExpr(t) THEN {SymNum(KnownValue(t))}
      ELSE IF t \in HugeExprs THEN {SymTag("huge")}
      ELSE IF IsCloseFraction(t) THEN {SymFloat(CloseDouble(t))}
      ELSE AnyResult

\* ------------------------------------------------------------------ guards
\* An outcome of a step that may raise: kind "ok", "ValueError" (msg its text)
\* or "Exception" (any other exception class).
Ok(v) == [kind |-> "ok", val |-> v, msg |-> NoMsg]
ValueError(m) == [kind |-> "ValueError", val |-> SymTag("nan"), msg |-> m]
Exception == [kind |-> "Exception", val |-> SymTag("nan"), msg |-> NoMsg]
SYMPY_VALUE_ERROR == "<ValueError raised inside sympy>"

Raised(sym) ==
  IF sym.tag = "raise_ValueError" THEN ValueError(SYMPY_VALUE_ERROR) ELSE Exception
IsRaise(sym) == sym.tag \in {"raise_ValueError", "raise_Exception"}

\* The largest exponent magnitude _assert_expr_complexity lets through.
_MAX_EXPONENT_ABS == 2000

\* A finiteness guard that lets every value through.
_assert_finite_never(val) == NoMsg

\* The message _assert_finite_sym raises with, or NoMsg.
_assert_finite_sym(val) ==
  IF val.tag \in {"zoo", "nan"} THEN _NON_FINITE_MSG ELSE NoMsg

\* The message _assert_expr_complexity raises with, or NoMsg.  With
\* evaluate=True every expression over the allowed characters has been
\* evaluated to a number, for which the function returns in its is_number
\* branch (a ValueError raised there is swallowed by the except around it);
\* the tuple has neither count_ops nor preorder_traversal.
_assert_expr_complexity(sym) == NoMsg

\* _eval_numeric after parse_expr has returned sym.  float() of a number
\* beyond the range of a double is inf, which math.isfinite refuses.
_eval_numeric(sym) ==
  IF IsRaise(sym) THEN Raised(sym)
  ELSE IF _assert_expr_complexity(sym) # NoMsg THEN ValueError(_assert_expr_complexity(sym))
  ELSE IF _assert_finite_sym(sym) # NoMsg THEN ValueError(_assert_finite_sym(sym))
  ELSE IF sym.tag = "num" THEN Ok(sym.dbl)
  ELSE IF sym.tag = "big" THEN Ok(BigDouble)
  ELSE IF sym.tag = "huge" THEN ValueError(_NON_FINITE_MSG)
  ELSE Exception

\* The calls _eval_numeric makes on the answer, in order, as far as it gets
\* when parse_expr has returned sym.
_eval_numeric_calls(sym) ==
  IF IsRaise(sym) THEN <<"parse_expr">>
  ELSE IF _assert_expr_complexity(sym) # NoMsg THEN <<"parse_expr", "_assert_expr_complexity">>
  ELSE IF _assert_finite_sym(sym) # NoMsg
  THEN <<"parse_expr", "_assert_expr_complexity", "_assert_finite_sym">>
  ELSE <<"parse_expr", "_assert_expr_complexity", "_assert_finite_sym", "evalf">>

\* The calls the fraction branch of _mark_one makes on the answer, likewise.
_mark_fraction_calls(sym) ==
  IF IsRaise(sym) THEN <<"parse_expr">>
  ELSE IF _assert_expr_complexity(sym) # NoMsg THEN <<"parse_expr", "_assert_expr_complexity">>
  ELSE IF sym.tag = "object" THEN <<"parse_expr", "_assert_expr_complexity", "nsimplify">>
  ELSE <<"parse_expr", "_assert_expr_complexity", "nsimplify", "_assert_finite_sym">>

\* The calls that carry out arithmetic: parse_expr is called with
\* evaluate=True and returns the tree with its powers, products and sums of
\* numbers computed; evalf computes the floating-point value.
ComputingCalls == {"parse_expr", "evalf"}

\* nsimplify(sym): a number stays the number (a Float becomes a rational);
\* the tuple has no evalf and raises AttributeError.
nsimplify(sym) == IF sym.tag = "object" THEN SymTag("raise_Exception") ELSE sym

BIG_TEXT == <<"<digits of a big integer>">>

\* f"{val.p}/{val.q}" for a Rational, str(val) otherwise.
FractionText(val) ==
  IF val.tag = "num" /\ val.hasRat THEN IntToStr(val.rat[1]) \o <<"/">> \o IntToStr(val.rat[2])
  ELSE IF val.tag \in {"big", "huge"} THEN BIG_TEXT \o <<"/", "1">>
  ELSE <<"<str of ", val.tag, ">">>

\* _canonical_fraction_str after parse_expr has returned sym: Ok(text) or a raise.
_canonical_fraction_str(sym) ==
  IF IsRaise(sym) THEN Raised(sym)
  ELSE IF _assert_expr_complexity(sym) # NoMsg THEN ValueError(_assert_expr_complexity(sym))
  ELSE IF IsRaise(nsimplify(sym)) THEN Raised(nsimplify(sym))
  ELSE IF _assert_finite_sym(nsimplify(sym)) # NoMsg
  THEN ValueError(_assert_finite_sym(nsimplify(sym)))
  ELSE Ok(FractionText(nsimplify(sym)))

RECURSIVE StripZeros(_)
StripZeros(s) == IF s # <<>> /\ s[Len(s)] = "0" THEN StripZeros(SubSeq(s, 1, Len(s) - 1)) ELSE s

Pad9(n) == LET d == NatToStr(n) IN Rep("0", 9 - Len(d)) \o d

\* _num_to_clean_str(x): the integer when x is one, else str(x).
_num_to_clean_str(x) ==
  IF x = BigDouble THEN BIG_TEXT
  ELSE IF x = InfDouble THEN <<"i", "n", "f">>
  ELSE IF x.n = 0 THEN (IF x.neg /\ x.w # 0 THEN <<"-">> ELSE <<>>) \o NatToStr(x.w)
  ELSE (IF x.neg THEN <<"-">> ELSE <<>>) \o NatToStr(x.w) \o <<".">> \o StripZeros(Pad9(x.n))

\* ------------------------------------------------------------------ policy
\* The module-level toggles of routers/marking.py, as shipped.
STRICT_SIMPLIFICATION == FALSE
PARTIAL_CREDIT_FOR_NON_REDUCED == FALSE
NOT_REDUCED_SCORE_VALUE == <<1, 2>>

ShippedConfig ==
  [strict |-> STRICT_SIMPLIFICATION, partial |-> PARTIAL_CREDIT_FOR_NON_REDUCED,
   partial_value |-> NOT_REDUCED_SCORE_VALUE]

Score0 == <<0, 1>>
Score1 == <<1, 1>>

\* ------------------------------------------------------------------ questions
\* A question as QuestionModel(**raw).model_dump() leaves it: id, type and
\* answer_expr (NONE when absent); topic and prompt play no part in grading.
Question(id, type, answer_expr) == [id |-> id, type |-> type, answer_expr |-> answer_expr]

_get_raw_expected(q) ==
  IF q.answer_expr # NONE /\ strip(q.answer_expr) # <<>> THEN strip(q.answer_expr) ELSE NONE

\* [+-]?\s*\d+ followed by blanks, as one side of frac_pat reads it.
SignBlankDigits(x) ==
  LET y == lstrip(x)
      z == IF y # <<>> /\ Head(y) \in {"+", "-"} THEN Tail(y) ELSE y
  IN  IsDigits(strip(z))

\* re.compile(r"^[+-]?\s*\d+\s*/\s*[+-]?\s*\d+\s*$").match(raw), raw stripped
frac_pat(raw) ==
  /\ SlashAt(raw) > 0
  /\ SignBlankDigits(SubSeq(raw, 1, SlashAt(raw) - 1))
  /\ SignBlankDigits(SubSeq(raw, SlashAt(raw) + 1, Len(raw)))

MSG_MISSING_FRACTION == "Question is missing its expected fraction (answer_expr)."
MSG_MISSING_ANSWER == "Question is missing its expected answer."

Expected(is_fraction, exp_str, has_value, exp_sym, err) ==
  [is_fraction |-> is_fraction, exp_str |-> exp_str, has_value |-> has_value,
   exp_sym |-> exp_sym, err |-> err]

\* float(raw_str) accepts the signed integer and decimal literals.
PyFloatOk(t) ==
  \/ IsSignedInt(t)
  \/ IsDecimal(t) /\ Len(WholePart(t)) <= MaxDigits /\ Len(FracPart(t)) <= 9
PyFloat(t) ==
  IF IsSignedInt(t)
  THEN IF SignedFits(t) THEN ToDouble(<<SignedVal(t), 1>>) ELSE BigDouble
  ELSE DecimalValue(t).dbl

\* _prepare_expected(q), symE being what parse_expr gives for the raw expected
\* text.  exp_sym is the Rational of a fraction question and carries, for a
\* numeric one, the float in its dbl.
_prepare_expected(q, symE) ==
  LET raw == _get_raw_expected(q)
      is_fraction == (q.type = "simplify_fraction") \/ (raw # NONE /\ frac_pat(raw))
      none == SymTag("nan")
  IN  IF raw = NONE
      THEN Expected(is_fraction, NONE, FALSE, none,
                    IF is_fraction THEN MSG_MISSING_FRACTION ELSE MSG_MISSING_ANSWER)
      ELSE IF is_fraction
      THEN IF SlashAt(raw) > 0 /\ PyIntOk(NumPart(raw)) /\ PyIntOk(DenPart(raw))
           THEN \* fast path: int / int
                LET a == PyInt(NumPart(raw))
                    b == PyInt(DenPart(raw))
                IN  IF b = 0 THEN Expected(TRUE, raw, FALSE, none, MSG_MISSING_FRACTION)
                    ELSE Expected(TRUE, FractionText(SymNum(Rational(a, b))), TRUE,
                                  SymNum(Rational(a, b)), NoMsg)
           ELSE \* fallback to sympy
                IF _canonical_fraction_str(symE).kind = "ok"
                THEN Expected(TRUE, _canonical_fraction_str(symE).val, TRUE, nsimplify(symE), NoMsg)
                ELSE Expected(TRUE, raw, FALSE, none, MSG_MISSING_FRACTION)
      ELSE IF PyFloatOk(raw)
      THEN Expected(FALSE, _num_to_clean_str(PyFloat(raw)), TRUE, SymFloat(PyFloat(raw)), NoMsg)
      ELSE \* fallback to sympy
           IF /\ ~IsRaise(symE)
              /\ _assert_expr_complexity(symE) = NoMsg
              /\ ~IsRaise(nsimplify(symE))
              /\ _assert_finite_sym(nsimplify(symE)) = NoMsg
              /\ nsimplify(symE).tag \in {"num", "big", "huge"}
           THEN LET val == IF symE.tag = "big" THEN BigDouble
                           ELSE IF symE.tag = "huge" THEN InfDouble ELSE symE.dbl
                IN  Expected(FALSE, _num_to_clean_str(val), TRUE, SymFloat(val), NoMsg)
           ELSE Expected(FALSE, raw, FALSE, none, MSG_MISSING_ANSWER)

\* ------------------------------------------------------------------ verdicts
\* What a handler leaves behind when an exception escapes it.
EscapedFrom(where) == [escaped |-> where]
IsEscaped(resp) == "escaped" \in DOMAIN resp

\* A feedback string: text, with arg the text put in place of {exp_str}.
Msg(t) == [text |-> t, arg |-> <<>>]
MsgWith(t, a) == [text |-> t, arg |-> a]
MSG_UNKNOWN_ID == "unknown question id"
MSG_REDUCE == "Reduce your fraction to {exp_str}."
MSG_CORRECT_REDUCE == "Correct, but reduce your fraction to {exp_str}."
MSG_SIMPLEST == "Correct; simplest form is {exp_str}."

\* The dict _mark_one returns.  steps is not part of it: it records which
\* stages ran, in order ("expected", "validate", "missing", "parse", "compare",
\* "policy").
Verdict(ok, correct, score, feedback, expected, steps) ==
  [ok |-> ok, correct |-> correct, score |-> score, feedback |-> feedback,
   expected |-> expected, expected_str |-> expected, steps |-> steps]

Failed(feedback, expected, steps) == Verdict(FALSE, FALSE, Score0, feedback, expected, steps)

\* The reduced check demanding a literal in lowest terms of every text.
_is_reduced_literal_only(ans) ==
  /\ IsFracLit(strip(ans))
  /\ gcd(SignedVal(NumPart(strip(ans))), SignedVal(DenPart(strip(ans)))) = 1

\* re.match(r"^\s*([+-]?\d+)\s*/\s*([+-]?\d+)\s*$", ans); math.gcd(a, b) == 1
_is_reduced_fraction_str(ans) ==
  IF ~IsFracLit(strip(ans)) THEN TRUE
  ELSE IF IsCloseFraction(strip(ans)) THEN TRUE
  ELSE gcd(SignedVal(NumPart(strip(ans))), SignedVal(DenPart(strip(ans)))) = 1

\* bool(exp_value.equals(user_val)) or float(exp_value) == float(user_val)
values_equal(e, u) ==
  IF e.tag = "num" /\ u.tag = "num"
  THEN IF e.hasRat /\ u.hasRat THEN e.rat = u.rat ELSE e.dbl = u.dbl
  ELSE e.tag = "big" /\ u.tag = "big"

require_simplified(q) == "require_simplified" \in DOMAIN q /\ q.require_simplified

\* The fraction branch with the non-reduced case always resolved leniently,
\* whatever the toggles and the question say.
_mark_fraction_always_lenient(q, answer, pe, symA, cfg) ==
  LET exp_str == pe.exp_str
      user_val == nsimplify(symA)
      st == <<"expected", "validate", "parse">>
  IN  IF IsRaise(symA) \/ IsRaise(user_val) THEN Failed(Msg(_INVALID_CHARS_MSG), exp_str, st)
      ELSE IF _assert_finite_sym(user_val) # NoMsg
      THEN Failed(Msg(_assert_finite_sym(user_val)), exp_str, st)
      ELSE IF ~values_equal(pe.exp_sym, user_val)
      THEN Verdict(TRUE, FALSE, Score0, Msg(""), exp_str, st \o <<"compare">>)
      ELSE IF Contains(answer, <<"/">>) /\ ~_is_reduced_fraction_str(answer)
      THEN Verdict(TRUE, TRUE, Score1, MsgWith(MSG_CORRECT_REDUCE, exp_str), exp_str,
                   st \o <<"compare", "policy">>)
      ELSE Verdict(TRUE, TRUE, Score1, Msg(""), exp_str, st \o <<"compare", "policy">>)

_mark_fraction(q, answer, pe, symA, cfg) ==
  LET exp_str == pe.exp_str
      user_val == nsimplify(symA)
      enforce_simplify == cfg.strict \/ require_simplified(q)
      st == <<"expected", "validate", "parse">>
  IN  IF IsRaise(symA)
      THEN Failed(IF symA.tag = "raise_ValueError" THEN Msg(SYMPY_VALUE_ERROR)
                  ELSE Msg(_INVALID_CHARS_MSG), exp_str, st)
      ELSE IF _assert_expr_complexity(symA) # NoMsg
      THEN Failed(Msg(_assert_expr_complexity(symA)), exp_str, st)
      ELSE IF IsRaise(user_val) THEN Failed(Msg(_INVALID_CHARS_MSG), exp_str, st)
      ELSE IF _assert_finite_sym(user_val) # NoMsg
      THEN Failed(Msg(_assert_finite_sym(user_val)), exp_str, st)
      ELSE IF ~values_equal(pe.exp_sym, user_val)
      THEN Verdict(TRUE, FALSE, Score0, Msg(""), exp_str, st \o <<"compare">>)
      ELSE IF Contains(answer, <<"/">>) /\ ~_is_reduced_fraction_str(answer)
      THEN IF enforce_simplify
           THEN Verdict(TRUE, FALSE, Score0, MsgWith(MSG_REDUCE, exp_str), exp_str,
                        st \o <<"compare", "policy">>)
           ELSE Verdict(TRUE, TRUE, IF cfg.partial THEN cfg.partial_value ELSE Score1,
                        MsgWith(MSG_CORRECT_REDUCE, exp_str), exp_str,
                        st \o <<"compare", "policy">>)
      ELSE Verdict(TRUE, TRUE, Score1, Msg(""), exp_str, st \o <<"compare", "policy">>)

\* The numeric branch without its "except Exception" clause.
_mark_numeric_no_except(q, answer, pe, symA) ==
  LET exp_str == pe.exp_str
      r == _eval_numeric(symA)
      st == <<"expected", "validate", "parse">>
      correct == isclose(r.val, pe.exp_sym.dbl)
  IN  IF r.kind = "ValueError" THEN Failed(Msg(r.msg), exp_str, st)
      ELSE IF r.kind = "Exception" THEN EscapedFrom("grading")
      ELSE Verdict(TRUE, correct, IF correct THEN Score1 ELSE Score0, Msg(""), exp_str,
                   st \o <<"compare">>)

_mark_numeric(q, answer, pe, symA) ==
  LET exp_str == pe.exp_str
      r == _eval_numeric(symA)
      st == <<"expected", "validate", "parse">>
      correct == isclose(r.val, pe.exp_sym.dbl)
      raw == strip(answer)
      suggest ==
        /\ exp_str # NONE /\ exp_str # <<>>
        /\ raw # exp_str
        /\ \E i \in 1..Len(raw) : raw[i] \in {"+", "-", "*", "/", "^", " "}
  IN  IF r.kind = "ValueError" THEN Failed(Msg(r.msg), exp_str, st)
      ELSE IF r.kind = "Exception" THEN Failed(Msg(_INVALID_CHARS_MSG), exp_str, st)
      ELSE Verdict(TRUE, correct, IF correct THEN Score1 ELSE Score0,
                   IF correct /\ suggest THEN MsgWith(MSG_SIMPLEST, exp_str) ELSE Msg(""),
                   exp_str, st \o <<"compare">>)

\* _mark_one without its input validation.
_mark_one_no_validation(q, answer, symE, symA, cfg) ==
  LET pe == _prepare_expected(q, symE)
  IN  IF ~pe.has_value THEN Failed(Msg(pe.err), pe.exp_str, <<"expected", "missing">>)
      ELSE IF pe.is_fraction THEN _mark_fraction(q, answer, pe, symA, cfg)
      ELSE _mark_numeric(q, answer, pe, symA)

\* _mark_one(q, answer): symE and symA are what parse_expr gives for the
\* question's expected text and for the answer.
_mark_one(q, answer, symE, symA, cfg) ==
  LET pe == _prepare_expected(q, symE)
      msg == _validate_answer_text(answer)
  IN  IF msg # NoMsg THEN Failed(Msg(msg), pe.exp_str, <<"expected", "validate">>)
      ELSE IF ~pe.has_value
      THEN Failed(Msg(IF pe.err # NoMsg /\ pe.err # "" THEN pe.err
                      ELSE IF pe.is_fraction THEN MSG_MISSING_FRACTION ELSE MSG_MISSING_ANSWER),
                  pe.exp_str, <<"expected", "validate", "missing">>)
      ELSE IF pe.is_fraction THEN _mark_fraction(q, answer, pe, symA, cfg)
      ELSE _mark_numeric(q, answer, pe, symA)

\* ------------------------------------------------------------------ inputs
Sigma == {"1", "2", " ", "/", "a", "("}

RECURSIVE TextsUpTo(_)
TextsUpTo(n) ==
  IF n = 0 THEN {<<>>}
  ELSE LET shorter == TextsUpTo(n - 1)
       IN  shorter \cup {t \o <<c>> : t \in {u \in shorter : Len(u) = n - 1}, c \in Sigma}

NamedAnswers ==
  { <<"2", "5">>,
    <<"2", "4">>,
    <<"5">>,
    <<"a", "b", "c">>,
    <<"6", "/", "8">>,
    <<"3", "/", "4">>,
    <<"-", "3", "/", "4">>,
    <<"0", ".", "7", "5">>,
    <<"1", "/", "0">>,
    <<"0", "/", "0">>,
    <<"(", ")">>,
    <<"3", "^", "2", " ", "+", " ", "4", "^", "2">>,
    <<"5", "/", "6">>,
    <<"2", "5", ".", "0", "0", "0", "0", "0", "0", "0", "0", "1">>,
    <<"2", "5", ".", "0", "0", "0", "0", "0", "0", "0", "1">>,
    <<"2", "4", ".", "9", "9", "9", "9", "9", "9", "9", "9", "9">>,
    <<"2", "4", ".", "9", "9", "9", "9", "9", "9", "9", "9">>,
    <<"2", "5", ".", "0", "0", "0", "0", "0", "1">>,
    <<" ", "2", "5", " ">>,
    <<"2", " ", "5">> }

LongAnswers ==
  { Rep("1", LEN_LIMIT), Rep("1", LEN_LIMIT + 1), Rep(" ", LEN_LIMIT + 1),
    <<" ">> \o Rep("1", LEN_LIMIT), Rep("1", LEN_LIMIT - 1) \o <<"a">>,
    Rep("1", LEN_LIMIT) \o <<"a">> }

Answers == TextsUpTo(MaxShort) \cup NamedAnswers \cup LongAnswers

\* The question set the service starts with.  q1, q2 are the bank's numeric
\* questions and q4 its fraction question; q5 has a type the grader does not
\* know; q6 is numeric with a literal fraction as expected text; q7's
\* expected fraction has a zero denominator.
DefaultBank ==
  << Question("q1", "numeric", <<"3", "^", "2", " ", "+", " ", "4", "^", "2">>),
     Question("q2", "numeric", <<"1", "/", "2", " ", "+", " ", "1", "/", "3">>),
     Question("q4", "simplify_fraction", <<"3", "/", "4">>),
     Question("q5", "algebra", <<"5">>),
     Question("q6", "numeric", <<"6", "/", "8">>),
     Question("q7", "simplify_fraction", <<"1", "/", "0">>) >>

QuestionIds == {"q1", "q2", "q4", "q5", "q6", "q7", "nope"}

\* ------------------------------------------------------------------ requests
Item(id, answer) == [id |-> id, answer |-> answer]

\* The items batches are made of: a right answer, an unknown id, a text the
\* validator rejects, a non-reduced fraction, an answer that does not
\* evaluate, a division by zero.
BatchItems ==
  { Item("q1", <<"2", "5">>), Item("nope", <<"1">>), Item("q1", <<"a", "b", "c">>),
    Item("q4", <<"6", "/", "8">>), Item("q1", <<"(", ")">>), Item("q4", <<"1", "/", "0">>) }

RECURSIVE SeqsUpTo(_, _)
SeqsUpTo(S, n) ==
  IF n = 0 THEN {<<>>}
  ELSE LET shorter == SeqsUpTo(S, n - 1)
       IN  shorter \cup {t \o <<x>> : t \in {u \in shorter : Len(u) = n - 1}, x \in S}

\* An Optional[int]: None, or the integer.
NoInt == <<>>
Some(x) == <<x>>

\* duration_ms of a MarkBatchRequest: absent, or what the client sent.
ClientDurations == {NoInt, Some(7)}
\* What the server's clock measures for the grading pass, in ms.
MeasuredMs == {0, 2}

EvaluateRequests == {[op |-> "evaluate", expr |-> e] : e \in Answers}
MarkRequests == {[op |-> "mark", id |-> id, answer |-> a] : id \in QuestionIds, a \in Answers}
MarkBatchRequests ==
  {[op |-> "mark_batch", items |-> its, duration_ms |-> d] :
     its \in SeqsUpTo(BatchItems, MaxItems), d \in ClientDurations}

Requests == EvaluateRequests \cup MarkRequests \cup MarkBatchRequests
NoRequest == [op |-> "none"]

\* ------------------------------------------------------------------ state
VARIABLES
  questions,   \* QuestionBank._questions, the loaded question set
  cfg,         \* the grading policy toggles
  attempts,    \* the rows of the attempts table, in insertion order
  returned,    \* history: the attempt ids that mark_batch calls have returned
  pending,     \* the request a client has sent and the service has yet to answer
  last         \* the last call answered: operation, request, response

vars == <<questions, cfg, attempts, returned, pending, last>>

NoCall == [op |-> "none"]

\* The service has started; one request has arrived.
Init ==
  /\ questions = DefaultBank
  /\ cfg = ShippedConfig
  /\ attempts = <<>>
  /\ returned = {}
  /\ pending \in Requests
  /\ last = NoCall

\* get_questions()
get_questions == questions

\* next((qq for qq in get_questions() if qq.get("id") == id), None)
HasId(qs, id) == \E i \in 1..Len(qs) : qs[i].id = id
FirstById(qs, id) ==
  qs[CHOOSE i \in 1..Len(qs) : qs[i].id = id /\ \A j \in 1..(i - 1) : qs[j].id # id]
\* {q["id"]: q for q in get_questions()}.get(id): a later question replaces an earlier one
LastById(qs, id) ==
  qs[CHOOSE i \in 1..Len(qs) : qs[i].id = id /\ \A j \in (i + 1)..Len(qs) : qs[j].id # id]

\* What parse_expr gives for the expected text of q.
ExpectedParses(q) ==
  IF _get_raw_expected(q) = NONE THEN {SymTag("nan")} ELSE parse_expr(_get_raw_expected(q))

\* One parse result per question of qs / per item of items.
RECURSIVE QuestionParses(_)
QuestionParses(qs) ==
  IF qs = <<>> THEN {<<>>}
  ELSE {<<x>> \o rest : x \in ExpectedParses(Head(qs)), rest \in QuestionParses(Tail(qs))}

RECURSIVE ItemParses(_)
ItemParses(items) ==
  IF items = <<>> THEN {<<>>}
  ELSE {<<x>> \o rest : x \in parse_expr(Head(items).answer), rest \in ItemParses(Tail(items))}

\* parse_expr is a function of the text: equal texts have the same result.
Consistent(qs, symsE, items, symsA) ==
  /\ \A i, j \in 1..Len(items) :
       strip(items[i].answer) = strip(items[j].answer) => symsA[i] = symsA[j]
  /\ \A i, j \in 1..Len(qs) :
       _get_raw_expected(qs[i]) = _get_raw_expected(qs[j]) => symsE[i] = symsE[j]
  /\ \A i \in 1..Len(qs), j \in 1..Len(items) :
       (_get_raw_expected(qs[i]) # NONE /\ _get_raw_expected(qs[i]) = strip(items[j].answer))
         => symsE[i] = symsA[j]

IndexFirst(qs, id) == CHOOSE i \in 1..Len(qs) : qs[i].id = id /\ \A j \in 1..(i - 1) : qs[j].id # id
IndexLast(qs, id) ==
  CHOOSE i \in 1..Len(qs) : qs[i].id = id /\ \A j \in (i + 1)..Len(qs) : qs[j].id # id

\* The record of a call that has been answered with resp.
Answered(op, impl, req, symsE, symsA, resp) ==
  [op |-> op, impl |-> impl, req |-> req, raised |-> IsEscaped(resp),
   symsE |-> symsE, symsA |-> symsA, resp |-> resp]

\* ------------------------------------------------------------------ /evaluate
evaluate(expr, sym) ==
  LET err == _validate_expr(expr)
      r == _eval_numeric(sym)
  IN  IF err # NoMsg
      THEN [ok |-> FALSE, value |-> NONE, feedback |-> Msg(err), steps |-> <<"validate">>]
      ELSE IF r.kind = "ok"
      THEN [ok |-> TRUE, value |-> r.val, feedback |-> Msg(NoMsg), steps |-> <<"validate", "parse">>]
      ELSE IF r.kind = "ValueError"
      THEN [ok |-> FALSE, value |-> NONE, feedback |-> Msg(r.msg),
            steps |-> <<"validate", "parse">>]
      ELSE [ok |-> FALSE, value |-> NONE, feedback |-> Msg(_INVALID_CHARS_MSG),
            steps |-> <<"validate", "parse">>]

Evaluate ==
  /\ pending.op = "evaluate"
  /\ \E sym \in parse_expr(pending.expr) :
       last' = Answered("evaluate", "routers", pending, <<>>, <<sym>>,
                        evaluate(pending.expr, sym))
  /\ pending' = NoRequest
  /\ UNCHANGED <<questions, cfg, attempts, returned>>

\* ------------------------------------------------------------------ /mark
UnknownId ==
  [ok |-> FALSE, correct |-> FALSE, score |-> Score0, feedback |-> Msg(MSG_UNKNOWN_ID),
   expected |-> NONE, expected_str |-> NONE, steps |-> <<>>]

\* mark validating the answer before it looks the question up.
mark_validate_first(id, answer, symsE, symA) ==
  IF _validate_answer_text(answer) # NoMsg
  THEN Failed(Msg(_validate_answer_text(answer)), NONE, <<"validate">>)
  ELSE IF ~HasId(get_questions, id) THEN UnknownId
  ELSE _mark_one(FirstById(get_questions, id), answer,
                 symsE[IndexFirst(get_questions, id)], symA, cfg)

mark(id, answer, symsE, symA) ==
  IF ~HasId(get_questions, id) THEN UnknownId
  ELSE LET q == FirstById(get_questions, id)
           symE == symsE[IndexFirst(get_questions, id)]
           pe == _prepare_expected(q, symE)
           msg == _validate_answer_text(answer)
       IN  IF msg # NoMsg THEN Failed(Msg(msg), pe.exp_str, <<"expected", "validate">>)
           ELSE _mark_one(q, answer, symE, symA, cfg)

Mark ==
  /\ pending.op = "mark"
  /\ \E symsE \in QuestionParses(questions), symsA \in ItemParses(<<pending>>) :
       /\ Consistent(questions, symsE, <<pending>>, symsA)
       /\ last' = Answered("mark", "routers", pending, symsE, symsA,
                           mark(pending.id, pending.answer, symsE, symsA[1]))
  /\ pending' = NoRequest
  /\ UNCHANGED <<questions, cfg, attempts, returned>>

\* ------------------------------------------------------------------ /mark-batch
UnknownIdInBatch ==
  [ok |-> FALSE, correct |-> FALSE, score |-> Score0, feedback |-> Msg(MSG_UNKNOWN_ID),
   expected |-> NONE, expected_str |-> NONE, steps |-> <<>>]

\* questions_by_id.get(it.id), then the unknown-id dict or _mark_one(q, it.answer)
_grade_item(it, symsE, symA) ==
  IF ~HasId(get_questions, it.id) THEN UnknownIdInBatch
  ELSE _mark_one(LastById(get_questions, it.id), it.answer,
                 symsE[IndexLast(get_questions, it.id)], symA, cfg)

\* results.append({"id": it.id, "response": res}); correct_count += 1 if
\* res.get("correct").  An exception out of _mark_one ends the loop.
_append_result(acc, id, res) ==
  IF IsEscaped(res)
  THEN [results |-> acc.results, correct_count |-> acc.correct_count, escaped |-> TRUE]
  ELSE [results |-> Append(acc.results, [id |-> id, response |-> res]),
        correct_count |-> IF res.correct THEN acc.correct_count + 1 ELSE acc.correct_count,
        escaped |-> FALSE]

\* A loop that gives up at the first item whose grading fails.
RECURSIVE GradeItemsAbortOnFailure(_, _, _, _, _)
GradeItemsAbortOnFailure(items, symsE, symsA, i, acc) ==
  IF i > Len(items) \/ acc.escaped THEN acc
  ELSE IF ~_grade_item(items[i], symsE, symsA[i]).ok THEN acc
  ELSE GradeItemsAbortOnFailure(items, symsE, symsA, i + 1,
         _append_result(acc, items[i].id, _grade_item(items[i], symsE, symsA[i])))

\* The for loop of mark_batch from item i on; acc holds results and correct_count.
RECURSIVE GradeItems(_, _, _, _, _)
GradeItems(items, symsE, symsA, i, acc) ==
  IF i > Len(items) \/ acc.escaped THEN acc
  ELSE GradeItems(items, symsE, symsA, i + 1,
         _append_result(acc, items[i].id, _grade_item(items[i], symsE, symsA[i])))

\* How the save of the Attempt goes: it succeeds; opening the session
\* raises; add / commit raises (nothing is stored); the commit succeeds and
\* the refresh that reads the row back raises.
SaveOutcomes == {"ok", "session_raises", "commit_raises", "refresh_raises"}
Stored(save) == save \in {"ok", "refresh_raises"}

Attempt(id, total, correct, items, duration_ms) ==
  [id |-> id, total |-> total, correct |-> correct, items |-> items,
   duration_ms |-> duration_ms]

\* The primary key the table gives the next row.
NextAttemptId == Len(attempts) + 1

\* The rest of mark_batch(req) after its loop, which left graded: measured is
\* the clock's measured_ms, save how the save goes.
_save_and_respond(req, symsE, symsA, measured, save, graded) ==
  LET results == graded.results
      correct_count == graded.correct_count
      total == Len(results)
      duration_ms == IF req.duration_ms # NoInt THEN req.duration_ms[1] ELSE measured
      attempt == Attempt(NextAttemptId, total, correct_count, results, duration_ms)
      attempt_id == IF save = "ok" THEN Some(attempt.id) ELSE NoInt
  IN  IF graded.escaped
      THEN /\ UNCHANGED <<attempts, returned>>
           /\ last' = [op |-> "mark_batch", impl |-> "routers", req |-> req, raised |-> TRUE,
                       symsE |-> symsE, symsA |-> symsA, save |-> "not reached",
                       rows_before |-> Len(attempts), measured |-> measured,
                       resp |-> EscapedFrom("grading")]
      ELSE /\ attempts' = IF Stored(save) THEN Append(attempts, attempt) ELSE attempts
           /\ returned' = IF save = "ok" THEN returned \cup {attempt.id} ELSE returned
           /\ last' = [op |-> "mark_batch", impl |-> "routers", req |-> req, raised |-> FALSE,
                       symsE |-> symsE, symsA |-> symsA, save |-> save,
                       rows_before |-> Len(attempts), measured |-> measured,
                       resp |-> [ok |-> TRUE, total |-> total, correct |-> correct_count,
                                 results |-> results, attempt_id |-> attempt_id,
                                 duration_ms |-> duration_ms]]

mark_batch(req, symsE, symsA, measured, save) ==
  _save_and_respond(req, symsE, symsA, measured, save,
                    GradeItems(req.items, symsE, symsA, 1,
                               [results |-> <<>>, correct_count |-> 0, escaped |-> FALSE]))

MarkBatch ==
  /\ pending.op = "mark_batch"
  /\ Len(attempts) < MaxAttempts
  /\ \E symsE \in QuestionParses(questions), symsA \in ItemParses(pending.items),
        measured \in MeasuredMs, save \in SaveOutcomes :
       /\ Consistent(questions, symsE, pending.items, symsA)
       /\ mark_batch(pending, symsE, symsA, measured, save)
  /\ pending' = NoRequest
  /\ UNCHANGED <<questions, cfg>>

\* ------------------------------------------------------------------ /attempts/{id}
HasAttempt(id) == \E i \in 1..Len(attempts) : attempts[i].id = id
AttemptById(id) == attempts[CHOOSE i \in 1..Len(attempts) : attempts[i].id = id]

\* get_attempt(attempt_id): the row, or HTTPException(404)
get_attempt(attempt_id) ==
  IF ~HasAttempt(attempt_id) THEN [status |-> 404, detail |-> "Attempt not found"]
  ELSE [status |-> 200, body |-> AttemptById(attempt_id)]

GetAttempt ==
  /\ pending.op = "none"
  /\ \E attempt_id \in 1..(MaxAttempts + 1) :
       last' = [op |-> "get_attempt", impl |-> "routers", req |-> [attempt_id |-> attempt_id],
                raised |-> FALSE, resp |-> get_attempt(attempt_id)]
  /\ UNCHANGED <<questions, cfg, attempts, returned, pending>>

\* ------------------------------------------------------------------ store scenario
\* Clients send batches one after another and read attempts back.
StoreBatches ==
  { <<>>,
    <<Item("q1", <<"2", "5">>)>>,
    <<Item("q1", <<"2", "5">>), Item("nope", <<"1">>)>> }

StoreMarkBatch ==
  /\ pending.op = "none"
  /\ Len(attempts) < MaxAttempts
  /\ \E items \in StoreBatches, d \in ClientDurations :
       \E symsE \in QuestionParses(questions), symsA \in ItemParses(items),
          measured \in MeasuredMs, save \in SaveOutcomes :
         /\ Consistent(questions, symsE, items, symsA)
         /\ mark_batch([op |-> "mark_batch", items |-> items, duration_ms |-> d],
                       symsE, symsA, measured, save)
  /\ UNCHANGED <<questions, cfg, pending>>

InitStore ==
  /\ questions = DefaultBank
  /\ cfg = ShippedConfig
  /\ attempts = <<>>
  /\ returned = {}
  /\ pending = NoRequest
  /\ last = NoCall

NextStore == StoreMarkBatch \/ GetAttempt

SpecStore == InitStore /\ [][NextStore]_vars

\* ------------------------------------------------------------------ main.py
\* The endpoints main.py defines on its own FastAPI app.  The check mark and
\* the dash of its messages are written in ASCII.
TOL_NANO == 1000

MAIN_MSG_ENTER_NUMERIC == "Please enter your answer (e.g., 25)."
MAIN_MSG_ENTER_FRACTION == "Please enter your answer (e.g., 3/4)."
MAIN_MSG_ALLOWED == "Only digits, + - * / ^ ( ) . and spaces allowed (max 100 chars)."
MAIN_MSG_PARSE_NUMERIC == "I couldn't parse that. Check brackets and operators."
MAIN_MSG_PARSE_FRACTION == "I couldn't parse that. Try a form like 3/4 or 0.75."
MAIN_MSG_ZERO_DEN == "Denominator cannot be zero."
MAIN_MSG_SIMPLEST == "Close - give your answer in simplest form."
MAIN_MSG_NOT_QUITE_REDUCE == "Not quite. Try fully reducing the fraction."
MAIN_MSG_UNSUPPORTED == "This question type isn't supported yet."
MAIN_MSG_UNKNOWN_ID == "Unknown question id."
MAIN_MSG_CORRECT == "Correct (check mark)"
MAIN_MSG_NOT_QUITE == "Not quite."

\* re.compile(r"[0-9\s+\-*/^().]{1,100}").fullmatch(expr)
main_ALLOWED_RE(expr) ==
  /\ Len(expr) >= 1
  /\ Len(expr) <= 100
  /\ \A i \in 1..Len(expr) : expr[i] \in Digits \cup Operators \cup Whitespace

NaNDouble == [neg |-> FALSE, w |-> -1, n |-> 0]

\* main._eval_numeric after sympify(expr_norm) has returned sym:
\* float(sym.evalf()).  float(nan) is the double NaN; zoo, a complex number
\* and the tuple raise.
main_eval_numeric(sym) ==
  IF IsRaise(sym) THEN Raised(sym)
  ELSE IF sym.tag = "num" THEN Ok(sym.dbl)
  ELSE IF sym.tag = "big" THEN Ok(BigDouble)
  ELSE IF sym.tag = "huge" THEN Ok(InfDouble)
  ELSE IF sym.tag = "nan" THEN Ok(NaNDouble)
  ELSE Exception

\* abs(user_val - expected) < TOL
main_close(user_val, expected) ==
  /\ user_val \notin {NaNDouble, InfDouble}
  /\ expected \notin {NaNDouble, InfDouble}
  /\ AbsDiffNano(user_val, expected) < TOL_NANO

\* text.lstrip("+-").isdigit()
RECURSIVE LstripSigns(_)
LstripSigns(t) == IF t # <<>> /\ Head(t) \in {"+", "-"} THEN LstripSigns(Tail(t)) ELSE t
IsPlainFraction(t) ==
  /\ SlashAt(t) > 0
  /\ IsDigits(LstripSigns(NumPart(t)))
  /\ IsDigits(LstripSigns(DenPart(t)))

\* main._canonical_fraction_str(expr_str), sym being what sympify gives for it.
main_canonical_fraction_str(text, sym) ==
  LET t == strip(text)
  IN  IF IsPlainFraction(t)
      THEN IF ~(IsSignedInt(NumPart(t)) /\ IsSignedInt(DenPart(t))) THEN ValueError("int()")
           ELSE LET n == SignedVal(NumPart(t))
                    d == SignedVal(DenPart(t))
                    g == IF gcd(Abs(n), Abs(d)) = 0 THEN 1 ELSE gcd(Abs(n), Abs(d))
                IN  IF d = 0 THEN ValueError("division by zero")
                    ELSE Ok(IntToStr(n \div g) \o <<"/">> \o IntToStr(d \div g))
      ELSE IF IsRaise(sym) THEN Raised(sym)
      ELSE IF sym.tag \in {"num", "big", "huge"} THEN Ok(FractionText(sym))
      ELSE Exception

MainResponse(ok, correct, score, feedback, expected, expected_str, steps) ==
  [ok |-> ok, correct |-> correct, score |-> score, feedback |-> feedback,
   expected |-> expected, expected_str |-> expected_str, steps |-> steps]
MainFailed(feedback, steps) == MainResponse(FALSE, FALSE, Score0, Msg(feedback), NONE, NONE, steps)

main_mark_numeric(q, expr, symE, symA) ==
  LET expected == main_eval_numeric(symE)
      user_val == main_eval_numeric(symA)
      correct == main_close(user_val.val, expected.val)
  IN  IF expr = <<>> THEN MainFailed(MAIN_MSG_ENTER_NUMERIC, <<"validate">>)
      ELSE IF ~main_ALLOWED_RE(expr) THEN MainFailed(MAIN_MSG_ALLOWED, <<"validate">>)
      ELSE IF q.answer_expr = NONE \/ expected.kind # "ok" \/ user_val.kind # "ok"
      THEN MainFailed(MAIN_MSG_PARSE_NUMERIC, <<"validate", "expected", "parse">>)
      ELSE MainResponse(TRUE, correct, IF correct THEN Score1 ELSE Score0,
                        Msg(IF correct THEN MAIN_MSG_CORRECT ELSE MAIN_MSG_NOT_QUITE),
                        expected.val, NONE, <<"validate", "expected", "parse", "compare">>)

main_mark_fraction(q, expr, symE, symA) ==
  LET provided_fraction == IsPlainFraction(expr)
      badInt == provided_fraction /\ ~(IsSignedInt(NumPart(expr)) /\ IsSignedInt(DenPart(expr)))
      n == SignedVal(NumPart(expr))
      d == SignedVal(DenPart(expr))
      fully_reduced == ~provided_fraction \/ (IF gcd(Abs(n), Abs(d)) = 0 THEN 1 ELSE gcd(Abs(n), Abs(d))) = 1
      expected_str == main_canonical_fraction_str(q.answer_expr, symE)
      user_str == main_canonical_fraction_str(expr, symA)
      st == <<"validate", "expected", "parse", "compare">>
  IN  IF expr = <<>> THEN MainFailed(MAIN_MSG_ENTER_FRACTION, <<"validate">>)
      ELSE IF ~main_ALLOWED_RE(expr) THEN MainFailed(MAIN_MSG_ALLOWED, <<"validate">>)
      ELSE IF badInt THEN MainFailed(MAIN_MSG_PARSE_FRACTION, <<"validate">>)
      ELSE IF provided_fraction /\ d = 0 THEN MainFailed(MAIN_MSG_ZERO_DEN, <<"validate">>)
      ELSE IF q.answer_expr = NONE \/ expected_str.kind # "ok" \/ user_str.kind # "ok"
      THEN MainFailed(MAIN_MSG_PARSE_FRACTION, <<"validate", "expected", "parse">>)
      ELSE IF user_str.val = expected_str.val
      THEN IF provided_fraction /\ ~fully_reduced
           THEN MainResponse(TRUE, FALSE, Score0, Msg(MAIN_MSG_SIMPLEST), NONE, expected_str.val, st)
           ELSE MainResponse(TRUE, TRUE, Score1, Msg(MAIN_MSG_CORRECT), NONE, expected_str.val, st)
      ELSE MainResponse(TRUE, FALSE, Score0, Msg(MAIN_MSG_NOT_QUITE_REDUCE), NONE,
                        expected_str.val, st)

\* main._mark_one(id_, answer)
main_mark_one(id, answer, symsE, symA) ==
  IF ~HasId(questions, id) THEN MainFailed(MAIN_MSG_UNKNOWN_ID, <<>>)
  ELSE LET q == FirstById(questions, id)
           symE == symsE[IndexFirst(questions, id)]
           expr == strip(answer)
       IN  IF q.type = "numeric" THEN main_mark_numeric(q, expr, symE, symA)
           ELSE IF q.type = "simplify_fraction" THEN main_mark_fraction(q, expr, symE, symA)
           ELSE MainFailed(MAIN_MSG_UNSUPPORTED, <<>>)

\* main.mark
MainMark ==
  /\ pending.op = "mark"
  /\ \E symsE \in QuestionParses(questions), symsA \in ItemParses(<<pending>>) :
       /\ Consistent(questions, symsE, <<pending>>, symsA)
       /\ last' = Answered("mark", "main", pending, symsE, symsA,
                           main_mark_one(pending.id, pending.answer, symsE, symsA[1]))
  /\ pending' = NoRequest
  /\ UNCHANGED <<questions, cfg, attempts, returned>>

\* if r.correct: correct += 1; results.append(MarkBatchResult(id=it.id, response=r))
main_append_result(acc, id, r) ==
  [results |-> Append(acc.results, [id |-> id, response |-> r]),
   correct |-> IF r.correct THEN acc.correct + 1 ELSE acc.correct]

RECURSIVE main_GradeItems(_, _, _, _, _)
main_GradeItems(items, symsE, symsA, i, acc) ==
  IF i > Len(items) THEN acc
  ELSE main_GradeItems(items, symsE, symsA, i + 1,
         main_append_result(acc, items[i].id,
                            main_mark_one(items[i].id, items[i].answer, symsE, symsA[i])))

\* The rest of main.mark_batch after its loop: the save sits in try / finally
\* with no except, so an exception raised while saving leaves the handler.
main_save_and_respond(req, symsE, symsA, measured, save, graded) ==
  LET attempt == Attempt(NextAttemptId, Len(req.items), graded.correct, graded.results, measured)
  IN  /\ attempts' = IF Stored(save) THEN Append(attempts, attempt) ELSE attempts
      /\ returned' = IF save = "ok" THEN returned \cup {attempt.id} ELSE returned
      /\ last' = IF save = "ok"
                 THEN [op |-> "mark_batch", impl |-> "main", req |-> req, raised |-> FALSE,
                       symsE |-> symsE, symsA |-> symsA, save |-> save,
                       rows_before |-> Len(attempts), measured |-> measured,
                       resp |-> [ok |-> TRUE, total |-> Len(req.items), correct |-> graded.correct,
                                 results |-> graded.results, attempt_id |-> Some(attempt.id)]]
                 ELSE [op |-> "mark_batch", impl |-> "main", req |-> req, raised |-> TRUE,
                       symsE |-> symsE, symsA |-> symsA, save |-> save,
                       rows_before |-> Len(attempts), measured |-> measured,
                       resp |-> EscapedFrom("save")]

main_mark_batch(req, symsE, symsA, measured, save) ==
  main_save_and_respond(req, symsE, symsA, measured, save,
                        main_GradeItems(req.items, symsE, symsA, 1,
                                        [results |-> <<>>, correct |-> 0]))

MainMarkBatch ==
  /\ pending.op = "mark_batch"
  /\ Len(attempts) < MaxAttempts
  /\ \E symsE \in QuestionParses(questions), symsA \in ItemParses(pending.items),
        measured \in MeasuredMs, save \in SaveOutcomes :
       /\ Consistent(questions, symsE, pending.items, symsA)
       /\ main_mark_batch(pending, symsE, symsA, measured, save)
  /\ pending' = NoRequest
  /\ UNCHANGED <<questions, cfg>>

Next == Evaluate \/ Mark \/ MarkBatch \/ MainMark \/ MainMarkBatch

Spec == Init /\ [][Next]_vars

\* ------------------------------------------------------------------ main.py /evaluate
MAIN_MSG_ENTER_EXPR == "Please enter an expression (e.g., 3^2 + 4^2)."
MAIN_MSG_ALLOWED_EVAL == "Only digits, + - * / ^ ( ) . and spaces are allowed (max 100 chars)."
MAIN_MSG_EVALUATE_ERROR == "Sorry, I couldn't evaluate that. Check brackets and operators."

\* What main.evaluate returns; a key the dict lacks is NONE (value) or NoMsg.
MainEvaluated(ok, value, feedback, error, steps) ==
  [ok |-> ok, value |-> value, feedback |-> Msg(feedback), error |-> error, steps |-> steps]

\* main.evaluate(req), sym being what sympify gives for the expression:
\* float(sympify(expr_norm).evalf()) is returned as it is.
main_evaluate(raw, sym) ==
  LET expr == strip(raw)
      r == main_eval_numeric(sym)
  IN  IF expr = <<>> THEN MainEvaluated(FALSE, NONE, MAIN_MSG_ENTER_EXPR, NoMsg, <<"validate">>)
      ELSE IF ~main_ALLOWED_RE(expr)
      THEN MainEvaluated(FALSE, NONE, MAIN_MSG_ALLOWED_EVAL, NoMsg, <<"validate">>)
      ELSE IF r.kind = "ok"
      THEN MainEvaluated(TRUE, r.val, NoMsg, NoMsg, <<"validate", "parse">>)
      ELSE MainEvaluated(FALSE, NONE, NoMsg, MAIN_MSG_EVALUATE_ERROR, <<"validate", "parse">>)

MainEvaluate ==
  /\ pending.op = "evaluate"
  /\ \E sym \in parse_expr(pending.expr) :
       last' = Answered("evaluate", "main", pending, <<>>, <<sym>>,
                        main_evaluate(pending.expr, sym))
  /\ pending' = NoRequest
  /\ UNCHANGED <<questions, cfg, attempts, returned>>

\* ------------------------------------------------------------------ evaluation scenario
\* Expressions sent to the evaluators: divisions by zero, powers with
\* exponents on both sides of 2000, results beyond the range of a double,
\* ordinary values, and texts the parser or the validator refuses.
EvalTexts ==
  { <<"1", "/", "0">>, <<"5", "/", "0">>, <<"0", "/", "0">>, <<"(", "1", "/", "0", ")">>,
    <<"2", "^", "2", "0", "0", "1">>, <<"2", "^", "2", "0", "0", "0">>,
    <<"1", "0", "^", "4", "0", "0">>,
    <<"1", "^", "2", "0", "0", "1">>, <<"1", "^", "2", "0", "0", "0">>, <<"2", "^", "1", "0">>,
    <<"3", "^", "2", " ", "+", " ", "4", "^", "2">>, <<"2", "5">>, <<"3", "/", "4">>,
    <<"0", ".", "7", "5">>, <<"1", "0", "2", "4">>, <<"2", "^">>, <<"(", ")">>,
    <<"a", "b", "c">>, <<>>, <<" ">> }

EvalRequests ==
  {[op |-> "evaluate", expr |-> e] : e \in EvalTexts}
    \cup {[op |-> "mark", id |-> id, answer |-> a] : id \in {"q1", "q4"}, a \in EvalTexts}

InitEval ==
  /\ questions = DefaultBank
  /\ cfg = ShippedConfig
  /\ attempts = <<>>
  /\ returned = {}
  /\ pending \in EvalRequests
  /\ last = NoCall

NextEval == Evaluate \/ MainEvaluate \/ Mark

SpecEval == InitEval /\ [][NextEval]_vars

\* ------------------------------------------------------------------ policy scenario
\* The values the three toggles of routers/marking.py can be set to.
Configs ==
  {[strict |-> s, partial |-> p, partial_value |-> NOT_REDUCED_SCORE_VALUE] : s, p \in BOOLEAN}

\* QuestionModel(**raw).model_dump(): the declared fields of raw; any other
\* key of raw is ignored.
QuestionModel(raw) ==
  Question(raw.id, raw.type, IF "answer_expr" \in DOMAIN raw THEN raw.answer_expr ELSE NONE)

\* QuestionBank.reload(): every record of the data files goes through
\* QuestionModel, in file order.
reload(data) == [i \in 1..Len(data) |-> QuestionModel(data[i])]

\* Records of a question file: a fraction question, the same question carrying
\* require_simplified, a numeric question whose expected text is a literal
\* fraction, and a numeric question with a compound expected text.
RawQuestions ==
  << [id |-> "q4", type |-> "simplify_fraction", answer_expr |-> <<"3", "/", "4">>],
     [id |-> "q8", type |-> "simplify_fraction", answer_expr |-> <<"3", "/", "4">>,
      require_simplified |-> TRUE],
     [id |-> "q6", type |-> "numeric", answer_expr |-> <<"6", "/", "8">>],
     [id |-> "q1", type |-> "numeric",
      answer_expr |-> <<"3", "^", "2", " ", "+", " ", "4", "^", "2">>] >>

PolicyAnswers ==
  { <<"3", "/", "4">>, <<"6", "/", "8">>, <<"9", "/", "1", "2">>, <<"6", " ", "/", " ", "8">>,
    <<"-", "6", "/", "-", "8">>, <<"-", "3", "/", "4">>, <<"-", "6", "/", "8">>,
    <<"3", "/", "-", "4">>, <<"1", "/", "2">>, <<"2", "/", "4">>,
    <<"0", ".", "7", "5">>, <<"-", "0", ".", "7", "5">>, <<"0", ".", "5">>,
    <<"(", "6", "/", "8", ")">>, <<"3", "*", "2", "/", "8">>,
    <<"2", "5">>, <<"5", "0", "/", "2">>, <<"2", "4">> }

PolicyItems ==
  { Item("q4", <<"6", "/", "8">>), Item("q8", <<"6", "/", "8">>), Item("q6", <<"6", "/", "8">>),
    Item("q4", <<"0", ".", "7", "5">>) }

PolicyRequests ==
  {[op |-> "mark", id |-> RawQuestions[i].id, answer |-> a] :
     i \in 1..Len(RawQuestions), a \in PolicyAnswers}
    \cup {[op |-> "mark_batch", items |-> its, duration_ms |-> NoInt] :
            its \in SeqsUpTo(PolicyItems, MaxItems) \ {<<>>}}

\* The bank has been loaded from RawQuestions, the toggles have some setting,
\* and one request has arrived.
InitPolicy ==
  /\ questions = reload(RawQuestions)
  /\ cfg \in Configs
  /\ attempts = <<>>
  /\ returned = {}
  /\ pending \in PolicyRequests
  /\ last = NoCall

NextPolicy == Mark \/ MarkBatch

SpecPolicy == InitPolicy /\ [][NextPolicy]_vars

\* ------------------------------------------------------------------ canonical fractions
\* Texts handed to the two _canonical_fraction_str functions: literal
\* fractions with every placement of the signs, decimals, other expressions.
CanonNumerators == {-6, -3, -2, 0, 2, 3, 4, 6}
CanonDenominators == {-8, -4, -2, 0, 1, 2, 4, 8}
CanonTexts ==
  {IntToStr(a) \o <<"/">> \o IntToStr(b) : a \in CanonNumerators, b \in CanonDenominators}
    \cup { <<"0", ".", "7", "5">>, <<"-", "0", ".", "7", "5">>, <<"1", ".", "2", "5">>,
           <<"+", "6", "/", "8">>, <<"6", " ", "/", " ", "8">>, <<"5">>, <<"-", "2">>,
           <<"(", "6", "/", "8", ")">>, <<"3", "*", "2", "/", "8">>, <<"(", ")">> }

CanonRequests == {[op |-> "canonicalize", text |-> t] : t \in CanonTexts}

\* The record of a canonicalization: the text, what the parser gave for it,
\* the outcome, and the outcome of canonicalizing the outcome's text.
Canonicalized(impl, req, sym, res, again) ==
  [op |-> "canonicalize", impl |-> impl, req |-> req, sym |-> sym, res |-> res, again |-> again]

\* routers/marking.py: _canonical_fraction_str(text), and once more on its result.
Canonicalize ==
  /\ pending.op = "canonicalize"
  /\ \E sym \in parse_expr(pending.text) :
       LET res == _canonical_fraction_str(sym)
       IN  \E sym2 \in (IF res.kind = "ok" THEN parse_expr(res.val) ELSE {sym}) :
             last' = Canonicalized("routers", pending, sym, res,
                                   IF res.kind = "ok" THEN _canonical_fraction_str(sym2) ELSE res)
  /\ pending' = NoRequest
  /\ UNCHANGED <<questions, cfg, attempts, returned>>

\* main.py: _canonical_fraction_str(text), and once more on its result.
MainCanonicalize ==
  /\ pending.op = "canonicalize"
  /\ \E sym \in parse_expr(pending.text) :
       LET res == main_canonical_fraction_str(pending.text, sym)
       IN  \E sym2 \in (IF res.kind = "ok" THEN parse_expr(res.val) ELSE {sym}) :
             last' = Canonicalized("main", pending, sym, res,
                                   IF res.kind = "ok" THEN main_canonical_fraction_str(res.val, sym2)
                                   ELSE res)
  /\ pending' = NoRequest
  /\ UNCHANGED <<questions, cfg, attempts, returned>>

InitCanon ==
  /\ questions = DefaultBank
  /\ cfg = ShippedConfig
  /\ attempts = <<>>
  /\ returned = {}
  /\ pending \in CanonRequests
  /\ last = NoCall

NextCanon == Canonicalize \/ MainCanonicalize

SpecCanon == InitCanon /\ [][NextCanon]_vars

\* ------------------------------------------------------------------ module load scenario
\* _ensure_questions_have_answer_expr(): the ids of the questions for which
\* _get_raw_expected finds nothing; RuntimeError when there is one.
MissingExpected(qs) == {qs[i].id : i \in {j \in 1..Len(qs) : _get_raw_expected(qs[j]) = NONE}}
_ensure_questions_have_answer_expr(qs) == MissingExpected(qs) = {}

\* Question files: a sound numeric question, and next to it nothing or one
\* question whose expected answer is absent, empty, blank, a fraction with a
\* zero denominator, or a text the parser may refuse.
SoundRecord ==
  [id |-> "q1", type |-> "numeric",
   answer_expr |-> <<"3", "^", "2", " ", "+", " ", "4", "^", "2">>]
BrokenRecords ==
  { [id |-> "b1", type |-> "numeric"],
    [id |-> "b1", type |-> "numeric", answer_expr |-> <<>>],
    [id |-> "b1", type |-> "simplify_fraction", answer_expr |-> <<" ">>],
    [id |-> "b1", type |-> "simplify_fraction", answer_expr |-> <<"1", "/", "0">>],
    [id |-> "b1", type |-> "numeric", answer_expr |-> <<"0", "/", "0">>],
    [id |-> "b1", type |-> "numeric", answer_expr |-> <<"2", "^">>],
    [id |-> "b1", type |-> "simplify_fraction", answer_expr |-> <<"(", ")">>] }
QuestionFiles == {<<SoundRecord>>} \cup {<<b, SoundRecord>> : b \in BrokenRecords}

LoadRequests ==
  {[op |-> "mark", id |-> id, answer |-> a] :
     id \in {"q1", "b1"}, a \in {<<"2", "5">>, <<"2", "4">>, <<"3", "/", "4">>, <<"a">>}}

ImportPending == [op |-> "import"]

\* The import of routers/marking.py: the module body runs
\* _ensure_questions_have_answer_expr() once; when it raises, the import fails
\* and the router serves no request, otherwise a request arrives.
ImportMarking ==
  /\ pending.op = "import"
  /\ IF _ensure_questions_have_answer_expr(get_questions)
     THEN /\ last' = [op |-> "import", raised |-> FALSE, missing |-> {}]
          /\ pending' \in LoadRequests
     ELSE /\ last' = [op |-> "import", raised |-> TRUE,
                      missing |-> MissingExpected(get_questions)]
          /\ pending' = NoRequest
  /\ UNCHANGED <<questions, cfg, attempts, returned>>

\* The bank has been loaded from some question file; the marking module is
\* about to be imported.
InitLoad ==
  /\ questions \in {reload(f) : f \in QuestionFiles}
  /\ cfg = ShippedConfig
  /\ attempts = <<>>
  /\ returned = {}
  /\ pending = ImportPending
  /\ last = NoCall

NextLoad == ImportMarking \/ Mark

SpecLoad == InitLoad /\ [][NextLoad]_vars

\* ------------------------------------------------------------------ reload scenario
\* QuestionBank.load(): the cached list, read again from the data files (data)
\* when the cache is empty.
load(qs, data) == IF qs = <<>> THEN reload(data) ELSE qs

\* What the data files hold at the time of a reload.
DataFiles ==
  { << [id |-> "q1", type |-> "numeric", answer_expr |-> <<"2", "5">>],
       [id |-> "q4", type |-> "simplify_fraction", answer_expr |-> <<"3", "/", "4">>] >>,
    << [id |-> "q1", type |-> "numeric", answer_expr |-> <<"2", "4">>],
       [id |-> "q4", type |-> "simplify_fraction", answer_expr |-> <<"1", "/", "2">>] >>,
    << >> }

Secret == <<"s", "e", "c", "r", "e", "t">>
\* ADMIN_TOKEN in the environment: unset, empty, set.
AdminTokens == {NONE, <<>>, Secret}
\* The x-admin-token header of a request: absent, empty, wrong, right.
AdminHeaders == {NONE, <<>>, <<"g", "u", "e", "s", "s">>, Secret}

MSG_TOKEN_NOT_CONFIGURED == "ADMIN_TOKEN not configured on server."
MSG_UNAUTHORIZED == "unauthorized"
MAIN_MSG_UNAUTHORIZED == "Unauthorized."

\* os.getenv("ADMIN_TOKEN") or ""
getenv_or_empty(env) == IF env = NONE THEN <<>> ELSE env

\* An admin endpoint that reloads for every caller.
reload_questions_open(env, provided, n) == [ok |-> TRUE, count |-> n]

\* reload_questions(request): env is ADMIN_TOKEN, provided the header, n the
\* count reload_bank() returns when it is reached.
reload_questions(env, provided, n) ==
  LET expected == getenv_or_empty(env)
  IN  IF expected = <<>> THEN [ok |-> FALSE, error |-> MSG_TOKEN_NOT_CONFIGURED]
      ELSE IF provided # expected THEN [ok |-> FALSE, error |-> MSG_UNAUTHORIZED]
      ELSE [ok |-> TRUE, count |-> n]

\* main.admin_reload(x_admin_token)
admin_reload(env, x_admin_token, n) ==
  LET token == getenv_or_empty(env)
  IN  IF token = <<>> THEN [ok |-> FALSE, error |-> MSG_TOKEN_NOT_CONFIGURED]
      ELSE IF x_admin_token # token THEN [ok |-> FALSE, error |-> MAIN_MSG_UNAUTHORIZED]
      ELSE [ok |-> TRUE, count |-> n]

\* The record of an answered POST /admin/reload: before and after are the
\* bank's question set when the request arrived and when it was answered, at is the item an in-flight
\* mark_batch was about to grade (0 when none was in flight).
Reloaded(impl, provided, data, resp, after) ==
  [op |-> "reload", impl |-> impl, provided |-> provided, data |-> data,
   before |-> questions, after |-> after, at |-> IF pending.op = "grading" THEN pending.i ELSE 0,
   raised |-> FALSE, resp |-> resp]

\* POST /admin/reload of routers/admin.py, at any time
AdminReload ==
  \E provided \in AdminHeaders, data \in DataFiles :
    LET resp == reload_questions(cfg.ADMIN_TOKEN, provided, Len(reload(data)))
    IN  /\ questions' = IF resp.ok THEN reload(data) ELSE questions
        /\ last' = Reloaded("routers", provided, data, resp, questions')
        /\ UNCHANGED <<cfg, attempts, returned, pending>>

\* POST /admin/reload of main.py, at any time
MainAdminReload ==
  \E provided \in AdminHeaders, data \in DataFiles :
    LET resp == admin_reload(cfg.ADMIN_TOKEN, provided, Len(reload(data)))
    IN  /\ questions' = IF resp.ok THEN reload(data) ELSE questions
        /\ last' = Reloaded("main", provided, data, resp, questions')
        /\ UNCHANGED <<cfg, attempts, returned, pending>>

\* A mark_batch that reads the bank again for every item.
questions_by_id_live(p) == questions
\* The question set an in-flight mark_batch p looks its items up in.
questions_by_id(p) == p.questions_by_id

\* q = questions_by_id.get(it.id); res = _mark_one(q, it.answer) or the
\* unknown-id verdict
_grade_item_in(qs, it, symsE, symA) ==
  IF ~HasId(qs, it.id) THEN UnknownIdInBatch
  ELSE _mark_one(LastById(qs, it.id), it.answer, symsE[IndexLast(qs, it.id)], symA, cfg)

\* mark_batch up to its loop: t0, and questions_by_id built from one
\* get_questions().
StartBatch ==
  /\ pending.op = "mark_batch"
  /\ Len(attempts) < MaxAttempts
  /\ \E data \in DataFiles :
       LET qs == load(questions, data)
       IN  /\ questions' = qs
           /\ \E symsE \in QuestionParses(qs), symsA \in ItemParses(pending.items) :
                /\ Consistent(qs, symsE, pending.items, symsA)
                /\ pending' = [op |-> "grading", req |-> pending, questions_by_id |-> qs,
                               symsE |-> symsE, symsA |-> symsA, i |-> 1,
                               acc |-> [results |-> <<>>, correct_count |-> 0,
                                        escaped |-> FALSE]]
  /\ UNCHANGED <<cfg, attempts, returned, last>>

\* One pass of the loop of mark_batch.
GradeItem ==
  /\ pending.op = "grading"
  /\ pending.i <= Len(pending.req.items)
  /\ ~pending.acc.escaped
  /\ pending' = [pending EXCEPT
                   !.i = @ + 1,
                   !.acc = _append_result(@, pending.req.items[pending.i].id,
                             _grade_item_in(questions_by_id(pending),
                                            pending.req.items[pending.i],
                                            pending.symsE, pending.symsA[pending.i]))]
  /\ UNCHANGED <<questions, cfg, attempts, returned, last>>

\* mark_batch after its loop.
FinishBatch ==
  /\ pending.op = "grading"
  /\ pending.i > Len(pending.req.items) \/ pending.acc.escaped
  /\ \E measured \in MeasuredMs, save \in SaveOutcomes :
       _save_and_respond(pending.req, pending.symsE, pending.symsA, measured, save, pending.acc)
  /\ pending' = NoRequest
  /\ UNCHANGED <<questions, cfg>>

\* mark(req) on the list that get_questions() returns.
mark_in(qs, id, answer, symsE, symA) ==
  IF ~HasId(qs, id) THEN UnknownId
  ELSE LET q == FirstById(qs, id)
           symE == symsE[IndexFirst(qs, id)]
           pe == _prepare_expected(q, symE)
           msg == _validate_answer_text(answer)
       IN  IF msg # NoMsg THEN Failed(Msg(msg), pe.exp_str, <<"expected", "validate">>)
           ELSE _mark_one(q, answer, symE, symA, cfg)

MarkCall ==
  /\ pending.op = "mark"
  /\ \E data \in DataFiles :
       LET qs == load(questions, data)
       IN  /\ questions' = qs
           /\ \E symsE \in QuestionParses(qs), symsA \in ItemParses(<<pending>>) :
                /\ Consistent(qs, symsE, <<pending>>, symsA)
                /\ last' = Answered("mark", "routers", pending, symsE, symsA,
                                    mark_in(qs, pending.id, pending.answer, symsE, symsA[1]))
  /\ pending' = NoRequest
  /\ UNCHANGED <<cfg, attempts, returned>>

ReloadItems ==
  { Item("q1", <<"2", "5">>), Item("q1", <<"2", "4">>), Item("q4", <<"3", "/", "4">>) }

ReloadRequests ==
  {[op |-> "mark", id |-> it.id, answer |-> it.answer] : it \in ReloadItems}
    \cup {[op |-> "mark_batch", items |-> its, duration_ms |-> NoInt] :
            its \in SeqsUpTo(ReloadItems, MaxItems)}

\* The bank holds what some data files gave (nothing when no record was
\* valid), ADMIN_TOKEN has some setting, and one grading request has arrived.
InitReload ==
  /\ questions \in {reload(data) : data \in DataFiles}
  /\ cfg \in {[strict |-> STRICT_SIMPLIFICATION, partial |-> PARTIAL_CREDIT_FOR_NON_REDUCED,
               partial_value |-> NOT_REDUCED_SCORE_VALUE, ADMIN_TOKEN |-> t] : t \in AdminTokens}
  /\ attempts = <<>>
  /\ returned = {}
  /\ pending \in ReloadRequests
  /\ last = NoCall

NextReload ==
  AdminReload \/ MainAdminReload \/ StartBatch \/ GradeItem \/ FinishBatch \/ MarkCall

SpecReload == InitReload /\ [][NextReload]_vars

\* ------------------------------------------------------------------ equality scenario
EqualAnswers ==
  { <<"3", "/", "4">>, <<"6", "/", "8">>, <<"0", ".", "7", "5">>, <<"1", "/", "2">>,
    <<"0", ".", "7", "6">>, <<"(", "6", "/", "8", ")">> }
    \cup {e[1] : e \in CloseFractions}

EqualItems == {Item("q4", a) : a \in EqualAnswers}

EqualRequests ==
  {[op |-> "mark", id |-> it.id, answer |-> it.answer] : it \in EqualItems}
    \cup {[op |-> "mark_batch", items |-> its, duration_ms |-> NoInt] :
            its \in SeqsUpTo(EqualItems, MaxItems) \ {<<>>}}

\* The bank has been loaded from RawQuestions, the toggles have some setting,
\* and an answer to the fraction question q4 (3/4) has arrived.
InitEqual ==
  /\ questions = reload(RawQuestions)
  /\ cfg \in Configs
  /\ attempts = <<>>
  /\ returned = {}
  /\ pending \in EqualRequests
  /\ last = NoCall

NextEqual == Mark \/ MarkBatch

SpecEqual == InitEqual /\ [][NextEqual]_vars

\* ------------------------------------------------------------------ complexity scenario
\* Expected texts at and beyond the limits of the guard: an integer literal of
\* 200 and of 201 digits, a sum of 200 and of 201 operators; and one far
\* from them.
LimitTexts ==
  { Rep("1", _MAX_INT_DIGITS), Rep("1", _MAX_INT_DIGITS + 1),
    SumOfOnes(_MAX_OPS + 1), SumOfOnes(_MAX_OPS + 2), <<"2", "5">> }

\* Question files of one question c1, numeric or fraction, with such a text.
LimitFiles ==
  { << [id |-> "c1", type |-> ty, answer_expr |-> t] >> :
      ty \in {"numeric", "simplify_fraction"}, t \in LimitTexts }

LimitAnswers == { <<"2", "5">>, <<"2", "0", "2">>, <<"2", "0", "2", "/", "1">>, <<"a">> }

LimitRequests ==
  {[op |-> "evaluate", expr |-> e] : e \in LimitTexts \cup LimitAnswers}
    \cup {[op |-> "mark", id |-> "c1", answer |-> a] : a \in LimitAnswers}
    \cup {[op |-> "mark_batch", items |-> <<Item("c1", a)>>, duration_ms |-> NoInt] :
            a \in LimitAnswers}

\* The bank has been loaded from one of the files and a request has arrived.
InitLimit ==
  /\ questions \in {reload(f) : f \in LimitFiles}
  /\ cfg = ShippedConfig
  /\ attempts = <<>>
  /\ returned = {}
  /\ pending \in LimitRequests
  /\ last = NoCall

NextLimit == Evaluate \/ Mark \/ MarkBatch

SpecLimit == InitLimit /\ [][NextLimit]_vars

\* ------------------------------------------------------------------ single and batch scenario
\* A question set in which two data files define q1, with different expected
\* texts; reload keeps every valid record.
TwiceQ1 ==
  << [id |-> "q1", type |-> "numeric", answer_expr |-> <<"2", "5">>],
     [id |-> "q4", type |-> "simplify_fraction", answer_expr |-> <<"3", "/", "4">>],
     [id |-> "q1", type |-> "numeric", answer_expr |-> <<"2", "4">>] >>

SameItems ==
  {Item(id, a) : id \in {"q1", "q4", "nope"},
                 a \in {<<"2", "5">>, <<"2", "4">>, <<"6", "/", "8">>, <<"a">>}}

SameRequests ==
  {[op |-> "mark", id |-> it.id, answer |-> it.answer] : it \in SameItems}
    \cup {[op |-> "mark_batch", items |-> its, duration_ms |-> NoInt] :
            its \in SeqsUpTo(SameItems, MaxItems) \ {<<>>}}

\* The bank holds the questions of the service or those of TwiceQ1, and a
\* request has arrived.
InitSame ==
  /\ questions \in {DefaultBank, reload(TwiceQ1)}
  /\ cfg = ShippedConfig
  /\ attempts = <<>>
  /\ returned = {}
  /\ pending \in SameRequests
  /\ last = NoCall

NextSame == Mark \/ MarkBatch \/ MainMark \/ MainMarkBatch

SpecSame == InitSame /\ [][NextSame]_vars

\* ------------------------------------------------------------------ claims
\* The characters of the messages a validation or evaluation failure answers with.
Chars(text) ==
  CASE text = MSG_REQUIRED ->
         <<"A", "n", "s", "w", "e", "r", " ", "r", "e", "q", "u", "i", "r", "e", "d", ".">>
    [] text = MSG_TOO_LONG ->
         <<"A", "n", "s", "w", "e", "r", " ", "t", "o", "o", " ", "l", "o", "n", "g", " ", "(", ">", " ", "1", "0", "0", ")", ".">>
    [] text = _INVALID_CHARS_MSG ->
         <<"O", "n", "l", "y", " ", "n", "u", "m", "e", "r", "i", "c", " ", "e", "x", "p", "r", "e", "s", "s", "i", "o", "n", "s", " ", "u", "s", "i", "n", "g", " ", "d", "i", "g", "i", "t", "s", ",", " ", "s", "p", "a", "c", "e", "s", ",", " ", "+", " ", "-", " ", "*", " ", "/", " ", "^", " ", ".", " ", "a", "n", "d", " ", "p", "a", "r", "e", "n", "t", "h", "e", "s", "e", "s", " ", "a", "r", "e", " ", "a", "l", "l", "o", "w", "e", "d", ".">>
    [] text = _NON_FINITE_MSG ->
         <<"E", "x", "p", "r", "e", "s", "s", "i", "o", "n", " ", "i", "s", " ", "n", "o", "t", " ", "f", "i", "n", "i", "t", "e", " ", "(", "e", ".", "g", ".", ",", " ", "d", "i", "v", "i", "s", "i", "o", "n", " ", "b", "y", " ", "z", "e", "r", "o", ")", ".">>
    [] text = _TOO_COMPLEX_MSG ->
         <<"E", "x", "p", "r", "e", "s", "s", "i", "o", "n", " ", "i", "s", " ", "t", "o", "o", " ", "c", "o", "m", "p", "l", "e", "x", ".">>
    [] OTHER -> <<>>

\* "allowed" in feedback.lower()
HasAllowed(feedback) == Contains(Chars(feedback.text), <<"a", "l", "l", "o", "w", "e", "d">>)

RoutersBatch == last.op = "mark_batch" /\ last.impl = "routers"
RoutersMark == last.op = "mark" /\ last.impl = "routers"
RoutersEvaluate == last.op = "evaluate" /\ last.impl = "routers"

\* C1: every mark_batch answer of routers/marking.py has one verdict per
\* item, in the order of the items and with the item's id, total is the
\* number of items and the correct count is the number of verdicts whose
\* correct flag is set; items that fail do not remove the ones after them.
C1_BatchShape ==
  RoutersBatch =>
    /\ ~last.raised
    /\ Len(last.resp.results) = Len(last.req.items)
    /\ last.resp.total = Len(last.req.items)
    /\ \A i \in 1..Len(last.req.items) : last.resp.results[i].id = last.req.items[i].id
    /\ last.resp.correct =
         Cardinality({i \in 1..Len(last.resp.results) : last.resp.results[i].response.correct})

\* A batch whose first item fails (unknown id) and whose second is right.
C1_Witness ==
  /\ RoutersBatch
  /\ Len(last.resp.results) = 2
  /\ ~last.resp.results[1].response.ok
  /\ last.resp.results[1].response.feedback.text = MSG_UNKNOWN_ID
  /\ last.resp.results[2].response.correct
  /\ last.resp.correct = 1

SaveFailed == last.op = "mark_batch" /\ last.save # "ok"

\* C2: when the save of the Attempt fails, whichever step of it fails,
\* mark_batch returns normally with attempt_id null, ok true, and the total,
\* the correct count and the verdicts of the grading pass.
C2_SaveFailureIsSwallowed ==
  SaveFailed =>
    /\ ~last.raised
    /\ last.resp.ok
    /\ last.resp.attempt_id = NoInt
    /\ last.resp.total = Len(last.req.items)
    /\ Len(last.resp.results) = Len(last.req.items)
    /\ last.resp.correct =
         Cardinality({i \in 1..Len(last.resp.results) : last.resp.results[i].response.correct})

\* C3: a mark_batch call whose save succeeded has added exactly one row, which
\* carries the returned attempt_id (an id no earlier call returned), the
\* total, the correct count and the duration_ms of the answer, and
\* get_attempt of that id returns it; a call whose save failed has added no
\* row; get_attempt of an id no call returned answers 404.
C3_OneAttemptPerSavedBatch ==
  /\ (last.op = "mark_batch" /\ ~last.raised /\ last.resp.attempt_id # NoInt) =>
       /\ Len(attempts) = last.rows_before + 1
       /\ HasAttempt(last.resp.attempt_id[1])
       /\ Cardinality({i \in 1..Len(attempts) : attempts[i].id = last.resp.attempt_id[1]}) = 1
       /\ get_attempt(last.resp.attempt_id[1]).status = 200
       /\ get_attempt(last.resp.attempt_id[1]).body.total = last.resp.total
       /\ get_attempt(last.resp.attempt_id[1]).body.correct = last.resp.correct
       /\ get_attempt(last.resp.attempt_id[1]).body.duration_ms = last.resp.duration_ms
  /\ (last.op = "mark_batch" /\ (last.raised \/ last.resp.attempt_id = NoInt)) =>
       Len(attempts) = last.rows_before
  /\ Cardinality(returned) <= Len(attempts)
  /\ (last.op = "get_attempt" /\ last.req.attempt_id \notin returned) =>
       last.resp.status = 404

\* A result value: ok is a flag, and a refusal carries a feedback string.
IsResult(r) ==
  /\ ~IsEscaped(r)
  /\ r.ok \in BOOLEAN
  /\ ~r.ok => r.feedback.text # NoMsg

GradedPairs ==
  IF RoutersMark
  THEN {[id |-> last.req.id, answer |-> last.req.answer, symA |-> last.symsA[1], v |-> last.resp]}
  ELSE IF RoutersBatch /\ ~last.raised
  THEN {[id |-> last.req.items[i].id, answer |-> last.req.items[i].answer,
         symA |-> last.symsA[i], v |-> last.resp.results[i].response] :
          i \in 1..Len(last.req.items)}
  ELSE {}

QuestionOf(g) == IF RoutersMark THEN FirstById(questions, g.id) ELSE LastById(questions, g.id)
SymEOf(g) ==
  IF RoutersMark THEN last.symsE[IndexFirst(questions, g.id)]
  ELSE last.symsE[IndexLast(questions, g.id)]

InUnit(score) == 0 <= score[1] /\ score[1] <= score[2]

\* C5: in every verdict of mark and mark_batch, ok = false implies correct =
\* false and score = 0, correct = false implies score = 0, the score lies in
\* [0, 1], and ok = true comes only after the answer passed validation, the
\* expected value and the answer were evaluated, and the two were compared.
C5_VerdictShape ==
  \A g \in GradedPairs :
    /\ ~g.v.ok => (~g.v.correct /\ g.v.score = Score0)
    /\ ~g.v.correct => g.v.score = Score0
    /\ InUnit(g.v.score)
    /\ g.v.ok =>
         /\ HasId(questions, g.id)
         /\ _validate_answer_text(g.answer) = NoMsg
         /\ _prepare_expected(QuestionOf(g), SymEOf(g)).has_value
         /\ g.symA.tag \in {"num", "big", "complex"}
         /\ SubSeq(g.v.steps, 1, 4) = <<"expected", "validate", "parse", "compare">>

\* A definitive verdict that the answer is wrong.
C5_Witness ==
  \E g \in GradedPairs :
    g.id = "q1" /\ g.answer = <<"2", "4">> /\ g.v.ok /\ ~g.v.correct /\ g.v.score = Score0

AllowedChars == Digits \cup Whitespace \cup {"+", "-", "*", "/", "^", "(", ")", "."}

MustReject(s) ==
  \/ strip(s) = <<>>
  \/ Len(s) > 100
  \/ \E i \in 1..Len(s) : s[i] \notin AllowedChars

\* Whether the validator turned the text of the last evaluate or mark away:
\* the answer then stops at the "validate" stage.
ValidatedText == IF RoutersEvaluate THEN last.req.expr ELSE last.req.answer
WasValidated ==
  RoutersEvaluate \/ (RoutersMark /\ HasId(questions, last.req.id))
TurnedAway == last.resp.steps[Len(last.resp.steps)] = "validate"

\* C6: the validator rejects a text exactly when its trimmed form is empty,
\* or it is longer than 100 characters, or it holds a character other than
\* a digit, whitespace and + - * / ^ ( ) . ; validating changes no state.
C6_ValidatorExact ==
  WasValidated =>
    /\ TurnedAway <=> MustReject(ValidatedText)
    /\ attempts = <<>> /\ questions = DefaultBank /\ returned = {}

\* A text of exactly 100 characters is let through, and one of 101 whose
\* trimmed form has 100 is in the model.
C6_Witness ==
  /\ RoutersEvaluate
  /\ Len(last.req.expr) = LEN_LIMIT
  /\ ~TurnedAway

C8_UnknownIdFirst ==
  \A g \in GradedPairs :
    ~HasId(questions, g.id) =>
      /\ ~g.v.ok /\ ~g.v.correct /\ g.v.score = Score0
      /\ g.v.feedback = Msg(MSG_UNKNOWN_ID)
      /\ g.v.steps = <<>>

\* An unknown id with an answer the validator would reject.
C8_Witness ==
  /\ RoutersMark
  /\ last.req.id = "nope"
  /\ last.req.answer = <<"a", "b", "c">>
  /\ last.resp.feedback.text = MSG_UNKNOWN_ID

ValidationMessages == {MSG_REQUIRED, MSG_TOO_LONG, _INVALID_CHARS_MSG}
EvaluationMessages == {_INVALID_CHARS_MSG, _NON_FINITE_MSG, _TOO_COMPLEX_MSG, SYMPY_VALUE_ERROR}
MainMessages ==
  {MAIN_MSG_ENTER_NUMERIC, MAIN_MSG_ENTER_FRACTION, MAIN_MSG_ALLOWED, MAIN_MSG_PARSE_NUMERIC,
   MAIN_MSG_PARSE_FRACTION, MAIN_MSG_ZERO_DEN, MAIN_MSG_UNKNOWN_ID}

\* C9: a question whose type is neither numeric nor simplify_fraction is
\* refused with ok = false, correct = false, score = 0 and a feedback of its
\* own; its answer is never compared with an expected value.  (Stated for the
\* answers that pass validation, where no other refusal can take its place.)
C9_UnsupportedTypeRefused ==
  (last.op = "mark" /\ HasId(questions, last.req.id)
     /\ FirstById(questions, last.req.id).type \notin {"numeric", "simplify_fraction"}
     /\ _validate_answer_text(last.req.answer) = NoMsg) =>
    /\ ~last.resp.ok /\ ~last.resp.correct /\ last.resp.score = Score0
    /\ last.resp.feedback.text
         \notin ({MSG_UNKNOWN_ID} \cup ValidationMessages \cup EvaluationMessages \cup MainMessages)
    /\ \A i \in 1..Len(last.resp.steps) : last.resp.steps[i] # "compare"

\* C10: for a numeric question and a valid answer with a finite value, the
\* verdict is ok = true, and correct = true with score 1 exactly when the
\* answer's value is within 1e-9 of the expected value, else correct = false
\* with score 0.
C10_NumericTolerance ==
  (last.op = "mark" /\ HasId(questions, last.req.id)
     /\ FirstById(questions, last.req.id).type = "numeric"
     /\ _validate_answer_text(last.req.answer) = NoMsg
     /\ last.symsA[1].tag = "num") =>
    LET e == main_eval_numeric(last.symsE[IndexFirst(questions, last.req.id)]).val
        a == last.symsA[1].dbl
    IN  /\ last.resp.ok
        /\ last.resp.correct <=> AbsDiffNano(a, e) <= 1
        /\ last.resp.score = IF last.resp.correct THEN Score1 ELSE Score0

\* The answer is typed as a literal a/b (blanks allowed around the parts) that
\* is not in lowest terms.
NonReducedLiteral(t) ==
  /\ IsFracLit(strip(t))
  /\ SignedVal(DenPart(strip(t))) # 0
  /\ gcd(Abs(SignedVal(NumPart(strip(t)))), Abs(SignedVal(DenPart(strip(t))))) > 1

\* Both texts were parsed to rational numbers, and the two are the same number.
ValueEqual(g) ==
  /\ SymEOf(g).tag = "num" /\ SymEOf(g).hasRat
  /\ g.symA.tag = "num" /\ g.symA.hasRat
  /\ SymEOf(g).rat = g.symA.rat

\* The expected value of the question written p/q in lowest terms.
CanonicalExpected(g) == IntToStr(SymEOf(g).rat[1]) \o <<"/">> \o IntToStr(SymEOf(g).rat[2])

FractionQuestion(g) == HasId(questions, g.id) /\ QuestionOf(g).type = "simplify_fraction"

\* C11: for a fraction question, a value-equal answer typed as a literal
\* fraction that is not in lowest terms gets ok = true and is resolved by the
\* toggles: strict gives correct = false, score 0 and the feedback to reduce
\* to the canonical form; lenient gives correct = true, the partial-credit
\* value as score if partial credit is on and 1 otherwise, and the feedback
\* that names the canonical form.
C11_PolicyResolution ==
  \A g \in GradedPairs :
    (FractionQuestion(g) /\ ~require_simplified(QuestionOf(g))
       /\ ValueEqual(g) /\ NonReducedLiteral(g.answer)) =>
      /\ g.v.ok
      /\ g.v.expected = CanonicalExpected(g)
      /\ cfg.strict =>
           /\ ~g.v.correct
           /\ g.v.score = Score0
           /\ g.v.feedback = MsgWith(MSG_REDUCE, CanonicalExpected(g))
      /\ ~cfg.strict =>
           /\ g.v.correct
           /\ g.v.score = (IF cfg.partial THEN NOT_REDUCED_SCORE_VALUE ELSE Score1)
           /\ g.v.feedback = MsgWith(MSG_CORRECT_REDUCE, CanonicalExpected(g))

\* Partial credit is on and strictness off: 9/12 for 3/4 earns the partial score.
C11_Witness ==
  /\ RoutersMark
  /\ ~cfg.strict /\ cfg.partial
  /\ last.req.id = "q4"
  /\ last.req.answer = <<"9", "/", "1", "2">>
  /\ last.resp.correct
  /\ last.resp.score = NOT_REDUCED_SCORE_VALUE

\* The last call was a mark (of either implementation) of a simplify-fraction
\* question, with an answer of the same value as the expected text.
MarkedFraction ==
  /\ last.op = "mark"
  /\ HasId(questions, last.req.id)
  /\ FirstById(questions, last.req.id).type = "simplify_fraction"
MarkedValueEqual ==
  LET e == last.symsE[IndexFirst(questions, last.req.id)]
      a == last.symsA[1]
  IN  e.tag = "num" /\ e.hasRat /\ a.tag = "num" /\ a.hasRat /\ e.rat = a.rat

\* C12: with the toggles as shipped, marking a simplify-fraction question
\* with a value-equal literal fraction that is not in lowest terms (6/8 for
\* 3/4) answers ok = true, correct = false, score = 0.
C12_ShippedDefaultRejectsNonReduced ==
  (MarkedFraction /\ cfg = ShippedConfig /\ MarkedValueEqual
     /\ NonReducedLiteral(last.req.answer)) =>
    /\ last.resp.ok
    /\ ~last.resp.correct
    /\ last.resp.score = Score0

\* The record of the question file with this id carries require_simplified.
Flagged(id) ==
  \E i \in 1..Len(RawQuestions) : RawQuestions[i].id = id /\ require_simplified(RawQuestions[i])

\* C13: a question whose record carries require_simplified is graded
\* strictly, whatever the strict toggle is: a value-equal literal fraction not
\* in lowest terms gets correct = false and score = 0, in mark and in
\* mark_batch, for questions as get_questions hands them to the grader.
C13_FlagForcesStrict ==
  \A g \in GradedPairs :
    (HasId(questions, g.id) /\ Flagged(g.id) /\ ValueEqual(g) /\ NonReducedLiteral(g.answer)) =>
      /\ ~g.v.correct
      /\ g.v.score = Score0

MarkedValueDiffers ==
  LET e == last.symsE[IndexFirst(questions, last.req.id)]
      a == last.symsA[1]
  IN  e.tag = "num" /\ e.hasRat /\ a.tag = "num" /\ a.hasRat /\ e.rat # a.rat

\* The expected value of the marked question written p/q in lowest terms.
MarkedCanonical ==
  LET e == last.symsE[IndexFirst(questions, last.req.id)]
  IN  IntToStr(e.rat[1]) \o <<"/">> \o IntToStr(e.rat[2])

\* C14: for a fraction question, an answer whose value differs from the
\* expected value (reduced, non-reduced or decimal) gets ok = true, correct =
\* false, score = 0, an empty feedback, and the canonical expected fraction in
\* expected.
C14_WrongValueNoHint ==
  (MarkedFraction /\ MarkedValueDiffers /\ _validate_answer_text(last.req.answer) = NoMsg) =>
    /\ last.resp.ok
    /\ ~last.resp.correct
    /\ last.resp.score = Score0
    /\ last.resp.feedback.text = ""
    /\ last.resp.expected = MarkedCanonical

\* C15: the reduced-form policy touches only questions of type
\* simplify_fraction: for a question of type numeric, whatever the form of its
\* expected text and of the answer, the verdict is correct = true with score 1
\* when the two values are within the tolerance and correct = false with score
\* 0 otherwise, under every setting of the toggles.
C15_NumericIgnoresPolicy ==
  \A g \in GradedPairs :
    (HasId(questions, g.id) /\ QuestionOf(g).type = "numeric"
       /\ _validate_answer_text(g.answer) = NoMsg
       /\ g.symA.tag = "num" /\ SymEOf(g).tag = "num") =>
      /\ g.v.correct <=> AbsDiffNano(g.symA.dbl, SymEOf(g).dbl) <= 1
      /\ g.v.score = (IF g.v.correct THEN Score1 ELSE Score0)

\* The text is a signed integer, a slash and a signed integer, with optional
\* blanks around each part.
LiteralFraction(t) ==
  \E i \in 1..Len(t) :
    /\ t[i] = "/"
    /\ IsSignedInt(strip(SubSeq(t, 1, i - 1)))
    /\ IsSignedInt(strip(SubSeq(t, i + 1, Len(t))))
LiteralNum(t) == SignedVal(strip(SubSeq(t, 1, IndexOf(t, "/") - 1)))
LiteralDen(t) == SignedVal(strip(SubSeq(t, IndexOf(t, "/") + 1, Len(t))))

\* C16: the reduced check is true of a literal a/b exactly when gcd(|a|, |b|)
\* = 1 and true of every other text, so a value-equal answer that is not a
\* literal fraction (0.75, (6/8), 3*2/8 for 3/4), like a literal in lowest
\* terms, is graded correct = true with score 1 under every setting of the
\* toggles.
C16_ReducedCheckBindsLiterals ==
  \A g \in GradedPairs :
    (FractionQuestion(g) /\ ValueEqual(g) /\ _validate_answer_text(g.answer) = NoMsg) =>
      /\ _is_reduced_fraction_str(g.answer) <=>
           (LiteralFraction(g.answer) =>
              gcd(Abs(LiteralNum(g.answer)), Abs(LiteralDen(g.answer))) = 1)
      /\ (~LiteralFraction(g.answer) \/ _is_reduced_fraction_str(g.answer)) =>
           (g.v.ok /\ g.v.correct /\ g.v.score = Score1)

\* Strict grading, and an answer that holds a slash without being a literal.
C16_Witness ==
  /\ RoutersMark
  /\ cfg.strict
  /\ last.req.id = "q4"
  /\ last.req.answer = <<"3", "*", "2", "/", "8">>
  /\ last.resp.correct
  /\ last.resp.score = Score1

\* The text is p/q with q > 0 and gcd(|p|, q) = 1, and p/q is the rational r.
CanonicalTextOf(text, r) ==
  /\ r[2] > 0
  /\ gcd(Abs(r[1]), r[2]) = 1
  /\ text = IntToStr(r[1]) \o <<"/">> \o IntToStr(r[2])

\* C17: canonicalizing a text whose value is a rational (a literal fraction
\* with any placement of the signs, a decimal, an expression) gives p/q with
\* gcd(|p|, q) = 1, q > 0 and the sign on p, and canonicalizing that result
\* gives the same text again.
C17_CanonicalForm ==
  (last.op = "canonicalize" /\ last.res.kind = "ok" /\ last.sym.tag = "num" /\ last.sym.hasRat) =>
    /\ CanonicalTextOf(last.res.val, last.sym.rat)
    /\ last.again = last.res

\* The value of the parsed expression is infinite or undefined, or (huge) is
\* a number that no double holds.
NonFinite(sym) == sym.tag \in {"zoo", "nan", "huge"}

\* C18: evaluate never answers ok = true with an infinite, undefined or NaN
\* value: for a validated expression whose result is not finite (a division
\* by zero, 0/0, a result too large for a double) it answers ok = false, value
\* null and the non-finite feedback; mark refuses a non-finite answer in the
\* same way.
C18_NonFiniteRejected ==
  /\ (last.op = "evaluate" /\ _validate_expr(last.req.expr) = NoMsg) =>
       /\ last.resp.ok => last.resp.value \notin {NaNDouble, InfDouble}
       /\ NonFinite(last.symsA[1]) =>
            /\ ~last.resp.ok
            /\ last.resp.value = NONE
            /\ last.resp.feedback.text = _NON_FINITE_MSG
  /\ (RoutersMark /\ HasId(questions, last.req.id)
        /\ _validate_answer_text(last.req.answer) = NoMsg
        /\ last.symsA[1].tag \in {"zoo", "nan"}) =>
       /\ ~last.resp.ok
       /\ last.resp.feedback.text = _NON_FINITE_MSG

\* The digits that follow position i of t, as far as they go.
DigitRun(t, i) ==
  LET stops == {j \in i..(Len(t) + 1) : j = Len(t) + 1 \/ t[j] \notin Digits}
      stop == CHOOSE j \in stops : \A k \in stops : j <= k
  IN  SubSeq(t, i, stop - 1)

\* t holds a power whose exponent is written out in digits / is above k.
HasExponent(t) == \E i \in 1..Len(t) : t[i] = "^" /\ DigitRun(t, i + 1) # <<>>
HasExponentAbove(t, k) ==
  \E i \in 1..Len(t) :
    t[i] = "^" /\ DigitRun(t, i + 1) # <<>> /\ StrToNat(DigitRun(t, i + 1)) > k

\* C19: the evaluator fails with "too complex" when the expression holds an
\* exponent of magnitude 2001 or more, whatever the base, and does not fail
\* with "too complex" when every exponent is at most 2000, succeeding when the
\* result is a finite number.
C19_ExponentLimit ==
  (RoutersEvaluate /\ _validate_expr(last.req.expr) = NoMsg /\ HasExponent(last.req.expr)) =>
    IF HasExponentAbove(last.req.expr, _MAX_EXPONENT_ABS)
    THEN ~last.resp.ok /\ last.resp.feedback.text = _TOO_COMPLEX_MSG
    ELSE /\ last.resp.feedback.text # _TOO_COMPLEX_MSG
         /\ last.symsA[1].tag = "num" => last.resp.ok

\* The calls made on the answer of the last call of routers/marking.py (none
\* when the call ended before the answer was parsed).
AnswerCalls ==
  IF ~(RoutersEvaluate \/ RoutersMark) THEN <<>>
  ELSE IF \A i \in 1..Len(last.resp.steps) : last.resp.steps[i] # "parse" THEN <<>>
  ELSE IF RoutersEvaluate THEN _eval_numeric_calls(last.symsA[1])
  ELSE IF _prepare_expected(FirstById(questions, last.req.id),
                            last.symsE[IndexFirst(questions, last.req.id)]).is_fraction
  THEN _mark_fraction_calls(last.symsA[1])
  ELSE _eval_numeric_calls(last.symsA[1])
AnsweredText == IF RoutersEvaluate THEN last.req.expr ELSE last.req.answer

\* C20: in every evaluation of an answer (evaluate, numeric mark, fraction
\* mark) the complexity guard has completed before any call that computes
\* powers or big integers, and an expression the guard would reject (an
\* exponent above 2000) does not reach the guard as a computed number.
C20_GuardBeforeComputation ==
  /\ \A i \in 1..Len(AnswerCalls) :
       AnswerCalls[i] \in ComputingCalls =>
         \E j \in 1..(i - 1) : AnswerCalls[j] = "_assert_expr_complexity"
  /\ (AnswerCalls # <<>> /\ HasExponentAbove(AnsweredText, _MAX_EXPONENT_ABS)) =>
       last.symsA[1].tag \notin {"num", "big", "huge"}

\* The answer is a literal fraction whose denominator is zero.
ZeroDenominator(t) == LiteralFraction(t) /\ LiteralDen(t) = 0

\* C21: for a fraction question with an expected value, an answer typed as
\* a literal a/0 gets a failure verdict (ok = false, correct = false, score =
\* 0) whose feedback names the division by zero or the non-finite value, and
\* never the verdict of a wrong value (ok = true, correct = false).
C21_ZeroDenominatorIsFailure ==
  /\ (MarkedFraction /\ last.symsE[IndexFirst(questions, last.req.id)].tag = "num"
        /\ _validate_answer_text(last.req.answer) = NoMsg
        /\ ZeroDenominator(last.req.answer)) =>
       /\ ~last.resp.ok
       /\ ~last.resp.correct
       /\ last.resp.score = Score0
       /\ last.resp.feedback.text \in {_NON_FINITE_MSG, MAIN_MSG_ZERO_DEN}
  /\ \A g \in GradedPairs :
       (FractionQuestion(g) /\ SymEOf(g).tag = "num"
          /\ _validate_answer_text(g.answer) = NoMsg /\ ZeroDenominator(g.answer)) =>
         /\ ~g.v.ok
         /\ ~g.v.correct
         /\ g.v.score = Score0
         /\ g.v.feedback.text = _NON_FINITE_MSG

\* 1/0 on the fraction question q4 is refused as not finite.
C21_Witness ==
  /\ RoutersMark
  /\ last.req.id = "q4"
  /\ last.req.answer = <<"1", "/", "0">>
  /\ ~last.resp.ok
  /\ last.resp.feedback.text = _NON_FINITE_MSG

\* The expected answer of q is missing or empty, or parsing it (symE) raised
\* or gave no number or a value that is not finite.
BrokenExpected(q, symE) ==
  \/ _get_raw_expected(q) = NONE
  \/ IsRaise(symE)
  \/ symE.tag \in {"zoo", "nan", "object"}

\* C22: a question whose expected answer is missing, empty, unparseable or
\* not finite never makes the import of the marking module fail, grading it
\* with a valid answer gives ok = false, correct = false, score = 0 and a
\* feedback that the expected answer is missing, and the other questions are
\* still graded.
C22_BrokenQuestionNeverCrashes ==
  /\ last.op = "import" => ~last.raised
  /\ (RoutersMark /\ HasId(questions, last.req.id)
        /\ _validate_answer_text(last.req.answer) = NoMsg) =>
       IF BrokenExpected(FirstById(questions, last.req.id),
                         last.symsE[IndexFirst(questions, last.req.id)])
       THEN /\ ~last.resp.ok
            /\ ~last.resp.correct
            /\ last.resp.score = Score0
            /\ last.resp.feedback.text \in {MSG_MISSING_FRACTION, MSG_MISSING_ANSWER}
       ELSE last.symsE[IndexFirst(questions, last.req.id)].tag \in {"num", "big"} => last.resp.ok

\* C23: the duration_ms that mark_batch returns and the one stored in the
\* Attempt are the server's own measurement of the grading pass, an integer
\* >= 0, whatever duration_ms the request carried.
C23_DurationIsServerMeasurement ==
  last.op = "mark_batch" =>
    /\ (last.impl = "routers" /\ ~last.raised) =>
         /\ last.resp.duration_ms = last.measured
         /\ last.resp.duration_ms >= 0
    /\ Len(attempts) > last.rows_before =>
         /\ attempts[Len(attempts)].duration_ms = last.measured
         /\ attempts[Len(attempts)].duration_ms >= 0

\* The verdicts an in-flight mark_batch p has appended are those of its
\* items graded against the question set qs.
GradedAgainst(p, qs) ==
  /\ Len(p.acc.results) = p.i - 1
  /\ \A k \in 1..(p.i - 1) :
       p.acc.results[k].response =
         _grade_item_in(qs, p.req.items[k], p.symsE, p.symsA[k])

C25_ReloadNeedsToken ==
  last.op = "reload" =>
    IF cfg.ADMIN_TOKEN \notin {NONE, <<>>} /\ last.provided = cfg.ADMIN_TOKEN
    THEN /\ last.resp.ok
         /\ last.after = reload(last.data)
         /\ last.resp.count = Len(last.after)
    ELSE /\ ~last.resp.ok
         /\ last.after = last.before

\* The right token replaced a bank of two questions by another.
C25_Witness ==
  /\ last.op = "reload"
  /\ last.impl = "routers"
  /\ last.provided = Secret
  /\ last.resp.ok
  /\ last.resp.count = 2
  /\ last.after # last.before
  /\ questions = last.after

\* The verdict of g says the answer's value was found equal to the expected one.
JudgedEqual(g) == g.v.correct \/ g.v.feedback.text = MSG_REDUCE

\* The model knows the answer of g as an exact rational.
ExactAnswer(g) ==
  \/ g.symA.tag = "num" /\ g.symA.hasRat
  \/ IsCloseFraction(strip(g.answer))

\* C26: for a fraction question, the answer and the expected value are judged
\* equal iff their canonical rational forms are identical, the comparison
\* of doubles being left to values whose exact equality cannot be
\* established; between two rationals it always can.
C26_FractionEquality ==
  \A g \in GradedPairs :
    (FractionQuestion(g) /\ g.v.ok /\ ExactAnswer(g)
       /\ SymEOf(g).tag = "num" /\ SymEOf(g).hasRat) =>
      (JudgedEqual(g) <=> ValueEqual(g))

\* The verdicts of the last mark or mark_batch of either implementation, each
\* with the item it is for.
AllVerdicts ==
  IF last.op = "mark"
  THEN {[impl |-> last.impl, id |-> last.req.id, answer |-> last.req.answer, v |-> last.resp]}
  ELSE IF last.op = "mark_batch" /\ ~last.raised
  THEN {[impl |-> last.impl, id |-> last.req.items[i].id, answer |-> last.req.items[i].answer,
         v |-> last.resp.results[i].response] : i \in 1..Len(last.req.items)}
  ELSE {}

\* The validator of the implementation lets the answer through.
Accepted(impl, answer) ==
  IF impl = "routers" THEN _validate_answer_text(answer) = NoMsg
  ELSE strip(answer) # <<>> /\ main_ALLOWED_RE(strip(answer))

\* The parser ran on the answer, and not before the validator had.
ParsedAnswer(steps) == \E i \in 1..Len(steps) : steps[i] = "parse"
ValidatedBeforeParse(steps) ==
  \A i \in 1..Len(steps) : steps[i] = "parse" => \E j \in 1..(i - 1) : steps[j] = "validate"

\* The question of x exists and the implementation grades its type.
Gradable(x) ==
  /\ HasId(questions, x.id)
  /\ x.impl = "main" => FirstById(questions, x.id).type \in {"numeric", "simplify_fraction"}

\* C27: in evaluate, mark and mark_batch the parser runs on an answer only
\* after the validator has accepted that text, and an answer that fails
\* validation is answered with the validator's feedback, also when the
\* expected answer of the question is missing or cannot be evaluated.
C27_ValidateBeforeParse ==
  /\ RoutersEvaluate =>
       /\ ParsedAnswer(last.resp.steps) =>
            (_validate_expr(last.req.expr) = NoMsg /\ ValidatedBeforeParse(last.resp.steps))
       /\ _validate_expr(last.req.expr) # NoMsg =>
            last.resp.feedback.text = _validate_expr(last.req.expr)
  /\ \A x \in AllVerdicts :
       /\ ParsedAnswer(x.v.steps) =>
            (Accepted(x.impl, x.answer) /\ ValidatedBeforeParse(x.v.steps))
       /\ (Gradable(x) /\ ~Accepted(x.impl, x.answer)) =>
            /\ ~ParsedAnswer(x.v.steps)
            /\ ~x.v.ok
            /\ IF x.impl = "routers"
               THEN x.v.feedback.text = _validate_answer_text(x.answer)
               ELSE x.v.feedback.text
                      \in {MAIN_MSG_ENTER_NUMERIC, MAIN_MSG_ENTER_FRACTION, MAIN_MSG_ALLOWED}

\* A mark of q7, whose expected fraction 1/0 cannot be evaluated, with an
\* answer of letters: the feedback is the validator's.
C27_Witness ==
  /\ RoutersMark
  /\ last.req.id = "q7"
  /\ last.req.answer = <<"a", "b", "c">>
  /\ ~_prepare_expected(FirstById(questions, "q7"),
                        last.symsE[IndexFirst(questions, "q7")]).has_value
  /\ ~ParsedAnswer(last.resp.steps)
  /\ last.resp.feedback.text = _INVALID_CHARS_MSG

\* The number of operator characters of t, and whether t holds a run of more
\* than k digits.
OperatorCount(t) == Cardinality({i \in 1..Len(t) : t[i] \in {"+", "-", "*", "/", "^"}})
HasDigitRunAbove(t, k) == \E i \in 1..Len(t) : Len(DigitRun(t, i)) > k
BeyondLimits(t) == OperatorCount(t) > _MAX_OPS \/ HasDigitRunAbove(t, _MAX_INT_DIGITS)

\* C28: an expression with more than 200 operators or with an integer
\* literal of more than 200 digits is refused as too complex wherever it is
\* evaluated, also when it is one integer literal or folds to a plain number:
\* an expression sent to evaluate is never answered with a value, and a
\* question whose answer_expr is such an expression gets no expected value,
\* so no answer to it is graded ok = true.
C28_LimitsRefused ==
  /\ (RoutersEvaluate /\ BeyondLimits(last.req.expr)) => ~last.resp.ok
  /\ \A g \in GradedPairs :
       (HasId(questions, g.id) /\ _get_raw_expected(QuestionOf(g)) # NONE
          /\ BeyondLimits(_get_raw_expected(QuestionOf(g)))) =>
         /\ ~g.v.ok
         /\ ~g.v.correct

\* Two verdicts agree in ok, correct, score, feedback and expected.
SameVerdict(v, w) ==
  /\ v.ok = w.ok
  /\ v.correct = w.correct
  /\ v.score = w.score
  /\ v.feedback = w.feedback
  /\ v.expected = w.expected

\* What mark and what an item of mark_batch answer for x on the present
\* question set, symA being what the parser gives for the answer.
SingleVerdict(x, symA) ==
  IF x.impl = "routers" THEN mark(x.id, x.answer, last.symsE, symA)
  ELSE main_mark_one(x.id, x.answer, last.symsE, symA)
ItemVerdict(x, symA) ==
  IF x.impl = "routers" THEN _grade_item(Item(x.id, x.answer), last.symsE, symA)
  ELSE main_mark_one(x.id, x.answer, last.symsE, symA)

\* C29: on every question set, the verdict of mark(id, answer) is the
\* verdict mark_batch gives the item {id, answer}, whatever the other items
\* of the batch and the item's position.
C29_MarkEqualsBatchItem ==
  /\ last.op = "mark" =>
       SameVerdict(last.resp,
                   ItemVerdict([impl |-> last.impl, id |-> last.req.id,
                                answer |-> last.req.answer], last.symsA[1]))
  /\ (last.op = "mark_batch" /\ ~last.raised) =>
       \A i \in 1..Len(last.req.items) :
         SameVerdict(last.resp.results[i].response,
                     SingleVerdict([impl |-> last.impl, id |-> last.req.items[i].id,
                                    answer |-> last.req.items[i].answer], last.symsA[i]))

====
